---- MODULE Spec2Model ----
(***************************************************************************)
(* JATA live transit data pipeline.                                        *)
(*                                                                         *)
(*   Spec      the relay server's feed poller and cache                    *)
(*             (backend/src/index.ts)                                      *)
(*   SpecHeal  the same poller under the fairness its timers and its       *)
(*             request timeout give                                        *)
(*   SpecEta   the client's ETA correlation of one nearby vehicle, from    *)
(*             the relay's /api/predictions answer to the NearbyVehicle    *)
(*   SpecTrip  the active trip screen's location callback over a fixed     *)
(*             itinerary: active step, stops remaining, alert latches      *)
(*   SpecNotify  the trip notification: overlapping updateTripNotification *)
(*             calls and the dismissal on exit (NotificationService.ts)    *)
(*   SpecSession the active trip screen's lifecycle: cached-route          *)
(*             fallback, start-up of location tracking, teardown           *)
(*   SpecQuery the relay's /api/nearby and /api/alerts handlers over a     *)
(*             filled cache                                                *)
(*   SpecAlerts  the client's fetchServiceAlerts against /api/alerts       *)
(*   SpecFanout  the nearby-vehicle lookup's per-route prediction requests *)
(*   SpecCommute recordCommuteDeparture over the stored departure log      *)
(*   SpecPatterns getNextCommute and getTodaysPatterns over the stored     *)
(*             patterns                                                    *)
(*   SpecPredict overlapping schedulePredictiveDeparture calls             *)
(*   SpecLocalState the departure log, the pattern cache and the stored    *)
(*             itinerary read back, readable or not                        *)
(*   SpecRelay the relay's poller and its five query handlers together     *)
(*   SpecNearby  fetchNearbyVehicles over one /api/nearby answer           *)
(*   SpecHome  the home screen's refresh timer across focus, location      *)
(*             and unmount                                                 *)
(*   SpecHourTurn recordCommuteDeparture around the turn of an hour        *)
(*   SpecOverlap recordCommuteDeparture step by step, calls overlapping    *)
(*                                                                         *)
(* Every specification constrains all the variables of the module; the     *)
(* variables of the components it does not run stay at their initial       *)
(* values.                                                                 *)
(***************************************************************************)
EXTENDS Integers, Sequences, FiniteSets, TLC

VARIABLES
    \* ---- relay server: feed poller and cache (backend/src/index.ts) ----
    cache,          \* vehicleCache, alertsCache, tripUpdatesCache: feed -> entity list
    lastFetch,      \* lastVehicleFetch, ...: feed -> Null or the time of the write
    isFetching,     \* isFetchingVehicles, ...: feed -> BOOLEAN
    inFlight,       \* feed -> number of axios.get promises not yet settled
    clock,          \* the server's wall clock (new Date())
    \* ---- history variables of the poller (no code reads them) ----
    lastGood,       \* feed -> <<>> or <<[entity, at]>> of the last poll that decoded
    slotAtStart,    \* feed -> <<cache, lastFetch>> of the feed when its running poll started
    firstPoll,      \* feed -> the poll started at module load has not settled yet
    tickSkipped,    \* a single-flight guard has dropped a timer tick
    streakFeed,     \* the feed whose failures are counted
    failStreak,     \* consecutive failed polls of streakFeed (saturating)
    healed,         \* a successful poll has ended a streak of MaxStreak failures
    \* ---- client: ETA correlation of one nearby vehicle (NearbyDepartures) ----
    vehicle,        \* the vehicle's entry in the relay's /api/nearby answer
    feedTrips,      \* the route's TripUpdates in the relay's tripUpdatesCache
    predictions,    \* what fetchPredictions(routeId) returned
    fetchOutcome,   \* how the /api/predictions request ended
    nearbyVehicle,  \* the NearbyVehicle built for the vehicle
    etaPc,          \* "off", "fetching", "mapping", "done"
    \* ---- client: trip progress of the active trip screen (ActiveTransitScreen) ----
    steps,          \* routeData.steps
    hasCoordinates, \* routeData.coordinates is not empty
    wallClock,      \* the device's wall clock, Date.now() / 1000
    currentStepIndex,       \* useState(0)
    stopsRemaining,         \* useState(null)
    alertedTransfers,       \* alertedTransfers.current
    hasAlertedDestination,  \* hasAlertedDestination.current
    \* ---- history variables of the trip progress ----
    lastUpdateAt,   \* Null or the time of the last processed location update
    prevStepIndex,  \* Null or currentStepIndex before the last processed update
    prevStopsRemaining,     \* stopsRemaining before the last processed update
    transferAlerts,         \* step index -> transfer alerts triggered for it (saturating)
    destinationAlerts,      \* destination alerts triggered (saturating)
    \* ---- client: lifecycle of the trip session (ActiveTransitScreen effects) ----
    mounted,        \* "off", "mounted", "exited"
    paramSteps,     \* route.params.route.steps
    isOffline,      \* useState(false)
    isTracking,     \* useState(false)
    storedRoute,    \* the value under 'active_route' in AsyncStorage
    cachedRead,     \* what the getItem issued by loadCachedIfNeeded reads
    cachedLoad,     \* loadCachedIfNeeded: "off", "skipped", "reading", "done", "dropped"
    runs,           \* runs of the location effect: pc, closure, locationSubscription
    liveSubs,       \* the location subscriptions that deliver updates
    callbackAfterExit,      \* history: a location callback ran after the screen exited
    \* ---- client: persistent trip notification (NotificationService) ----
    tripNotificationId,     \* Null or the stored handle
    displayed,      \* the trip notifications in the notification shade
    calls,          \* updateTripNotification / dismissTripNotification calls in flight
    posted,         \* notifications scheduled so far (the last identifier)
    updatesStarted, \* updateTripNotification calls made so far
    screenExited,   \* the dismiss-on-unmount cleanup has run
    \* ---- relay server: query handlers (backend/src/index.ts) ----
    query,          \* NoQuery or the request last handled
    reply,          \* NoReply or its response body
    \* ---- client: service alerts of the trip session (pollAlerts) ----
    alertPoll,      \* the last fetchServiceAlerts call: its routeIds and outcome
    serviceAlerts,  \* useState<ServiceAlert[]>([])
    \* ---- client: prediction requests of one fetchNearbyVehicles call ----
    fanout,         \* pc, uniqueRouteIds, requests in flight, predictionsByRoute keys
    \* ---- client: commute pattern detector (utils/commutePatterns.ts) ----
    commute,        \* the values under 'commute_departures' and 'commute_patterns',
                    \* the time and the outcome of the last call (history)
    \* ---- client: predictive departure alert (NotificationService) ----
    home,           \* the home screen: nearbyInterval.current, the timers set and
                    \* not cleared, the loadNearby calls awaiting the location
    predict         \* predictiveNotificationId, the pending alerts, the calls in flight

pollerVars == <<cache, lastFetch, isFetching, inFlight, clock>>
pollerHist ==
    <<lastGood, slotAtStart, firstPoll, tickSkipped, streakFeed, failStreak,
      healed>>

etaVars ==
    <<vehicle, feedTrips, predictions, fetchOutcome, nearbyVehicle, etaPc>>

tripVars ==
    <<steps, hasCoordinates, wallClock, currentStepIndex, stopsRemaining,
      alertedTransfers, hasAlertedDestination, lastUpdateAt, prevStepIndex,
      prevStopsRemaining, transferAlerts, destinationAlerts>>

sessionVars ==
    <<mounted, paramSteps, isOffline, isTracking, storedRoute, cachedRead,
      cachedLoad, runs, liveSubs, callbackAfterExit>>

notifyVars ==
    <<tripNotificationId, displayed, calls, posted, updatesStarted, screenExited>>

queryVars == <<query, reply>>

alertVars == <<alertPoll, serviceAlerts>>

\* the client's services outside the trip screen's tracking
appVars == <<alertVars, home, fanout, commute, predict>>

clientVars == <<etaVars, tripVars, sessionVars, notifyVars>>

vars == <<pollerVars, pollerHist, queryVars, clientVars, appVars>>

Null == 0 - 1

Max(a, b) == IF a >= b THEN a ELSE b
Min(a, b) == IF a <= b THEN a ELSE b

(***************************************************************************)
(* JavaScript values that reach the client's arithmetic: a number, NaN,    *)
(* null or undefined, and an object.                                       *)
(***************************************************************************)
Num(n) == [t |-> "num", n |-> n]
NaN == [t |-> "nan", n |-> 0]
JsNull == [t |-> "null", n |-> 0]
\* A decoded int64 of value 0 (a Long: {low: 0, high: 0, unsigned: false}).
LongZero == [t |-> "obj", n |-> 0]

\* `if (x)`, `x && ...`
Truthy(x) == x.t = "obj" \/ (x.t = "num" /\ x.n # 0)
\* `x - n`: an object that is no number gives NaN
JsMinus(x, n) == IF x.t = "num" THEN Num(x.n - n) ELSE NaN
\* `x > n`: false on NaN
JsGreater(x, n) == x.t = "num" /\ x.n > n
\* Math.round(n / d) for integers n and d > 0: halves round up
RoundDiv(n, d) == (2 * n + d) \div (2 * d)
MathRoundDiv(x, d) == IF x.t = "num" THEN Num(RoundDiv(x.n, d)) ELSE NaN
\* Math.max(m, x): NaN if x is NaN
MathMax(m, x) == IF x.t = "num" THEN Num(Max(m, x.n)) ELSE NaN

(***************************************************************************)
(* Bounds of the model.                                                    *)
(***************************************************************************)
\* the server's wall clock runs over 0..MaxClock
MaxClock == 1
\* an upstream feed message holds 0..MaxEntities entities
MaxEntities == 1
\* failStreak stops counting here
MaxStreak == 2

(***************************************************************************)
(* The relay server: feed poller and cache.                                *)
(***************************************************************************)
Feeds == {"vehicles", "alerts", "tripUpdates"}

\* A decoded FeedMessage's entity list: entities 1..n of the message.
EntityList(n) == [i \in 1..n |-> i]

\* What an axios.get of a feed URL can settle with: rejected (transport error
\* or timeout), or resolved with a byte array that decodes or does not.
Responses ==
    [kind : {"transport", "timeout", "garbled"}, entity : {<<>>}]
        \cup [kind : {"ok"}, entity : {EntityList(n) : n \in 0..MaxEntities}]

\* axios.get resolved (it did not reject).
Resolved(resp) == resp.kind \in {"ok", "garbled"}

\* FeedMessage.decode returns (it throws on bytes that are no FeedMessage).
Decodes(resp) == resp.kind = "ok"

\* The single-flight guard: `if (isFetchingX) return;`
GuardAlwaysOpen(flag) == TRUE

GuardLetsThrough(flag) == ~flag

\* The try block after the await: decode, then the two assignments.  An
\* exception (axios rejecting, decode throwing) leaves the block before the
\* first assignment.
TryBlockStampsFirst(resp, oldCache, oldFetch, now) ==
    IF Resolved(resp)
    THEN [cache |-> IF Decodes(resp) THEN resp.entity ELSE oldCache,
          lastFetch |-> now]
    ELSE [cache |-> oldCache, lastFetch |-> oldFetch]

TryBlockCatchClears(resp, oldCache, oldFetch, now) ==
    IF Resolved(resp) /\ Decodes(resp)
    THEN [cache |-> resp.entity, lastFetch |-> now]
    ELSE [cache |-> <<>>, lastFetch |-> oldFetch]

TryBlock(resp, oldCache, oldFetch, now) ==
    IF Resolved(resp) /\ Decodes(resp)
    THEN [cache |-> resp.entity, lastFetch |-> now]
    ELSE [cache |-> oldCache, lastFetch |-> oldFetch]

\* The finally block: `isFetchingX = false`, whatever happened in try/catch.
FlagClearedInTryOnly(resp) == ~(Resolved(resp) /\ Decodes(resp))

FinallyFlag(resp) == FALSE

\* GET /api/health
health ==
    [f \in Feeds |-> [count |-> Len(cache[f]), lastFetch |-> lastFetch[f]]]

EmptyCaches == [f \in Feeds |-> <<>>]
NoFetches == [f \in Feeds |-> Null]

\* The client components are not running.
EtaAtRest ==
    /\ vehicle = <<>>
    /\ feedTrips = <<>>
    /\ predictions = <<>>
    /\ fetchOutcome = "none"
    /\ nearbyVehicle = <<>>
    /\ etaPc = "off"

TripAtRest ==
    /\ steps = <<>>
    /\ hasCoordinates = FALSE
    /\ wallClock = 0
    /\ currentStepIndex = 0
    /\ stopsRemaining = JsNull
    /\ alertedTransfers = {}
    /\ hasAlertedDestination = FALSE
    /\ lastUpdateAt = Null
    /\ prevStepIndex = Null
    /\ prevStopsRemaining = JsNull
    /\ transferAlerts = <<>>
    /\ destinationAlerts = 0

NoStoredRoute == [kind |-> "none", steps |-> <<>>]

SessionAtRest ==
    /\ mounted = "off"
    /\ paramSteps = <<>>
    /\ isOffline = FALSE
    /\ isTracking = FALSE
    /\ storedRoute = NoStoredRoute
    /\ cachedRead = NoStoredRoute
    /\ cachedLoad = "off"
    /\ runs = <<>>
    /\ liveSubs = {}
    /\ callbackAfterExit = FALSE

NotifyAtRest ==
    /\ tripNotificationId = Null
    /\ displayed = {}
    /\ calls = <<>>
    /\ posted = 0
    /\ updatesStarted = 0
    /\ screenExited = FALSE

\* A query parameter: absent, or a string of characters.
Absent == [t |-> "absent", s |-> <<>>]
Str(chars) == [t |-> "str", s |-> chars]

\* No request has been served.
NoQuery ==
    [endpoint |-> "none", lat |-> Absent, lon |-> Absent, radius |-> Absent,
     routes |-> Absent]
NoReply == [status |-> 0, nearby |-> <<>>, total |-> 0, alerts |-> <<>>]

QueryAtRest ==
    /\ query = NoQuery
    /\ reply = NoReply

\* No fetchServiceAlerts call has been made.
NoAlertPoll == [routeIds |-> <<>>, outcome |-> "none"]

AlertsAtRest ==
    /\ alertPoll = NoAlertPoll
    /\ serviceAlerts = <<>>

\* fetchNearbyVehicles is not running.
NoFanout ==
    [pc |-> "idle", uniqueRouteIds |-> {}, inFlight |-> {}, predictionsByRoute |-> {},
     nearby |-> <<>>, closestPerRoute |-> <<>>, result |-> <<>>]

\* A value under a storage key: nothing stored, a string that is no JSON, or
\* the JSON of a list.
NothingStored == [kind |-> "none", items |-> <<>>]
CorruptValue == [kind |-> "corrupt", items |-> <<>>]
StoredList(items) == [kind |-> "value", items |-> items]

\* The commute detector has never been called.
NoCommute ==
    [departures |-> NothingStored, patterns |-> NothingStored,
     clock |-> <<0, 0>>, calls |-> 0, op |-> "none", read |-> "none",
     before |-> <<>>, added |-> <<>>, result |-> <<>>,
     running |-> {}, issued |-> <<>>, inOrder |-> TRUE]

\* schedulePredictiveDeparture has never been called.
NoPredict ==
    [predictiveNotificationId |-> Null, pending |-> {}, calls |-> <<>>,
     posted |-> 0, started |-> 0]

\* The home screen is not mounted.
NoHome ==
    [phase |-> "off", ref |-> Null, active |-> {}, created |-> 0, mounts |-> 0,
     loads |-> 0, hasCoords |-> FALSE, ticked |-> FALSE, lateTick |-> FALSE]

AppAtRest ==
    /\ AlertsAtRest
    /\ home = NoHome
    /\ fanout = NoFanout
    /\ commute = NoCommute
    /\ predict = NoPredict

ClientAtRest == EtaAtRest /\ TripAtRest /\ SessionAtRest /\ NotifyAtRest

\* The state after the module body has run: the three initial fetches
\* (updateVehicleCache(); updateAlertsCache(); updateTripUpdatesCache();)
\* have set their flags and are awaiting axios.get.
Init ==
    /\ cache = EmptyCaches
    /\ lastFetch = NoFetches
    /\ isFetching = [f \in Feeds |-> TRUE]
    /\ inFlight = [f \in Feeds |-> 1]
    /\ clock = 0
    /\ lastGood = [f \in Feeds |-> <<>>]
    /\ slotAtStart = [f \in Feeds |-> <<<<>>, Null>>]
    /\ firstPoll = [f \in Feeds |-> TRUE]
    /\ tickSkipped = FALSE
    /\ streakFeed \in Feeds
    /\ failStreak = 0
    /\ healed = FALSE
    /\ ClientAtRest
    /\ QueryAtRest
    /\ AppAtRest

\* A setInterval callback of feed f runs update<F>Cache up to its await.
Tick(f) ==
    IF GuardLetsThrough(isFetching[f])
    THEN /\ isFetching' = [isFetching EXCEPT ![f] = TRUE]
         /\ inFlight' = [inFlight EXCEPT ![f] = @ + 1]
         /\ slotAtStart' = [slotAtStart EXCEPT ![f] = <<cache[f], lastFetch[f]>>]
         /\ UNCHANGED <<cache, lastFetch, clock, lastGood, firstPoll,
                        tickSkipped, streakFeed, failStreak, healed, clientVars, queryVars, appVars>>
    ELSE /\ tickSkipped' = TRUE
         /\ UNCHANGED <<pollerVars, lastGood, slotAtStart, firstPoll,
                        streakFeed, failStreak, healed, clientVars, queryVars, appVars>>

\* The awaited axios.get of feed f settles with resp and update<F>Cache runs
\* to its end: try block, catch, finally.  One synchronous run of the event
\* loop, so one step.
Settle(f, resp) ==
    /\ inFlight[f] > 0
    /\ LET r == TryBlock(resp, cache[f], lastFetch[f], clock)
           good == Resolved(resp) /\ Decodes(resp)
       IN  /\ cache' = [cache EXCEPT ![f] = r.cache]
           /\ lastFetch' = [lastFetch EXCEPT ![f] = r.lastFetch]
           /\ isFetching' = [isFetching EXCEPT ![f] = FinallyFlag(resp)]
           /\ inFlight' = [inFlight EXCEPT ![f] = @ - 1]
           /\ lastGood' = IF good
                          THEN [lastGood EXCEPT
                                   ![f] = <<[entity |-> resp.entity, at |-> clock]>>]
                          ELSE lastGood
           /\ failStreak' = IF f # streakFeed THEN failStreak
                            ELSE IF good THEN 0
                            ELSE Min(failStreak + 1, MaxStreak)
           /\ healed' = (healed \/ (f = streakFeed /\ good /\ failStreak = MaxStreak))
    /\ firstPoll' = [firstPoll EXCEPT ![f] = FALSE]
    /\ slotAtStart' = [slotAtStart EXCEPT ![f] = <<>>]
    /\ UNCHANGED <<clock, tickSkipped, streakFeed, clientVars, queryVars, appVars>>

updateVehicleCache == Tick("vehicles")
updateAlertsCache == Tick("alerts")
updateTripUpdatesCache == Tick("tripUpdates")

FetchSucceeds(f) == \E resp \in Responses : Decodes(resp) /\ Settle(f, resp)
FetchFails(f) == \E resp \in Responses : ~Decodes(resp) /\ Settle(f, resp)

\* Time passes on the server.
ClockAdvance ==
    /\ clock < MaxClock
    /\ clock' = clock + 1
    /\ UNCHANGED <<cache, lastFetch, isFetching, inFlight, pollerHist, clientVars, queryVars, appVars>>

Next ==
    \/ updateVehicleCache
    \/ updateAlertsCache
    \/ updateTripUpdatesCache
    \/ \E f \in Feeds : FetchSucceeds(f)
    \/ \E f \in Feeds : FetchFails(f)
    \/ ClockAdvance

Spec == Init /\ [][Next]_vars

\* The timers keep firing, every request settles (axios timeout: 10000), and
\* the upstream feed answers well again and again.
SpecHeal ==
    /\ Spec
    /\ \A f \in Feeds : WF_vars(Tick(f))
    /\ \A f \in Feeds : WF_vars(FetchSucceeds(f) \/ FetchFails(f))
    /\ \A f \in Feeds : SF_vars(FetchSucceeds(f))

(***************************************************************************)
(* Claims about the feed poller and cache.                                 *)
(***************************************************************************)

\* C1 (as stated): when a poll fails, the cache and lastFetch of every feed are
\* what they were before that poll started.  Stated here for the polls started
\* at module load, which began with every cache empty and every lastFetch null.
C1_AsStated ==
    [][\A f \in Feeds :
          (firstPoll[f] /\ FetchFails(f))
              => (cache' = EmptyCaches /\ lastFetch' = NoFetches)]_vars

\* C1 (amended): handling a failed poll changes the cache and lastFetch of no
\* feed, and the failing feed's own cache and lastFetch are what they were
\* before that poll started; the other two feeds may have been replaced
\* meanwhile by their own successful polls.
C1_FailedPollKeepsSnapshot ==
    [][\A f \in Feeds :
          FetchFails(f)
              => /\ cache' = cache
                 /\ lastFetch' = lastFetch
                 /\ <<cache'[f], lastFetch'[f]>> = slotAtStart[f]]_vars

C1_Witness ==
    /\ failStreak > 0
    /\ cache[streakFeed] # <<>>
    /\ lastFetch[streakFeed] # Null
    /\ health[streakFeed].count = Len(lastGood[streakFeed][1].entity)

\* C2: at most one fetch of a feed is in flight at any time; a tick that finds
\* the feed's fetch still running changes no state of the poller, and a fetch
\* starts only on a tick that finds the flag clear (a dropped tick is not
\* replayed when the running fetch settles).
C2_SingleFlight ==
    /\ [](\A f \in Feeds :
             inFlight[f] <= 1 /\ (isFetching[f] <=> inFlight[f] = 1))
    /\ [][\A f \in Feeds :
             /\ (isFetching[f] /\ Tick(f)) => UNCHANGED pollerVars
             /\ (inFlight'[f] > inFlight[f]) => (~isFetching[f] /\ Tick(f))]_vars

C2_Witness ==
    /\ tickSkipped
    /\ \E f \in Feeds : isFetching[f] /\ ~firstPoll[f]

\* C3: in every state a handler can run in, each feed's cached entity list is
\* the whole entity list of one successful poll and lastFetch is the time of
\* that same poll (both still initial before the first successful poll).
C3_SnapshotConsistent ==
    \A f \in Feeds :
        IF lastGood[f] = <<>>
        THEN cache[f] = <<>> /\ lastFetch[f] = Null
        ELSE cache[f] = lastGood[f][1].entity /\ lastFetch[f] = lastGood[f][1].at

C3_Witness ==
    \E f, g \in Feeds :
        /\ lastGood[f] # <<>> /\ lastGood[g] # <<>>
        /\ lastGood[f][1].at < lastGood[g][1].at
        /\ Len(cache[f]) < Len(cache[g])
        /\ health[g] = [count |-> MaxEntities, lastFetch |-> clock]

\* C4: whenever a fetch of a feed finishes, by success or by failure, the
\* feed's single-flight flag is released; and if the timers keep firing and the
\* upstream feed keeps answering well now and then, a feed that has failed
\* (however often in a row) gets its snapshot replaced again.
C4_SelfHealing ==
    /\ [][\A f \in Feeds :
             (FetchSucceeds(f) \/ FetchFails(f)) => ~isFetching'[f]]_vars
    /\ (failStreak > 0) ~> (failStreak = 0)

C4_Witness == healed /\ failStreak = 0

\* C37: a feed's lastFetch is null exactly while no poll of the feed has
\* succeeded, and its cache is empty then; lastFetch never decreases and is
\* never null again; and a successful poll that writes the snapshot is the only
\* fetch of the feed in flight, nothing having written the feed's cache or
\* lastFetch since it started, so that the snapshot is that of the successful
\* fetch started last.
C37_SnapshotOfLatestFetch ==
    /\ [](\A f \in Feeds :
             /\ lastFetch[f] = Null <=> lastGood[f] = <<>>
             /\ lastFetch[f] = Null => cache[f] = <<>>)
    /\ [][\A f \in Feeds :
             /\ lastFetch'[f] >= lastFetch[f]
             /\ lastFetch[f] # Null => lastFetch'[f] # Null
             /\ FetchSucceeds(f)
                    => /\ inFlight[f] = 1
                       /\ slotAtStart[f] = <<cache[f], lastFetch[f]>>
                       /\ lastGood'[f] = <<[entity |-> cache'[f], at |-> lastFetch'[f]]>>]_vars

\* A feed has been fetched well after failing MaxStreak times in a row, at a
\* later time than another feed, while a third has failed and is still empty.
C37_Witness ==
    /\ healed
    /\ \E f, g \in Feeds :
           /\ lastFetch[f] # Null
           /\ lastFetch[streakFeed] > lastFetch[f]
           /\ lastFetch[g] = Null
           /\ ~firstPoll[g]
           /\ ~isFetching[g]


(***************************************************************************)
(* The client: ETA correlation engine (NearbyDeparturesService).           *)
(***************************************************************************)
\* nowSec = Math.floor(Date.now() / 1000) of the call
NowSec == 1000
\* the heuristic's metres per minute
MetersPerMinute == 300
SecondsPerMinute == 60

\* a trip's stop_time_update list holds 0..MaxStops updates
MaxStops == 2

NoTripId == "undefined"
StopSeqs == {1, 2}
\* arrival.time of the feed, relative to NowSec: past, half a minute ahead, later
ArrivalOffsets == {0 - 90, 30, 100}

\* A decoded StopTimeEvent (arrival): absent, or present with its int64 time
\* (0 when the event carries a delay only).
StopTimeEvents ==
    {[present |-> FALSE, low |-> 0]}
        \cup [present : {TRUE}, low : {0} \cup {NowSec + o : o \in ArrivalOffsets}]

StopTimeUpdates == [stopSequence : StopSeqs, arrival : StopTimeEvents]

StopTimeUpdateLists == UNION {[1..n -> StopTimeUpdates] : n \in 0..MaxStops}

\* The route's TripUpdates in the relay's cache: none, the trip T1, or another
\* trip (T2) ahead of T1.
OtherTrip ==
    [tripId |-> "T2",
     stopTimeUpdate |-> <<[stopSequence |-> 1,
                           arrival |-> [present |-> TRUE, low |-> NowSec + 100]]>>]

FeedTripBatches ==
    {<<>>}
        \cup {<<[tripId |-> "T1", stopTimeUpdate |-> l]>> : l \in StopTimeUpdateLists}
        \cup {<<OtherTrip, [tripId |-> "T1", stopTimeUpdate |-> l]>> :
                 l \in StopTimeUpdateLists}

\* The vehicle as /api/nearby reports it.
Vehicles ==
    [tripId : {NoTripId, "", "T1", "T3"},
     currentStopSequence : {JsNull, Num(0), Num(1), Num(2)},
     distanceMeters : {100, 450}]

\* GET /api/predictions: `time: stu.arrival.time?.low || stu.arrival.time`
RelayTime(ev) == IF ev.low # 0 THEN Num(ev.low) ELSE LongZero

\* GET /api/predictions: `arrival: stu.arrival ? {delay, time} : null`
RelayArrival(ev) ==
    IF ev.present THEN [isNull |-> FALSE, time |-> RelayTime(ev)]
    ELSE [isNull |-> TRUE, time |-> JsNull]

\* GET /api/predictions?route=...: the body's predictions.
PredictionsEndpoint(trips) ==
    [i \in 1..Len(trips) |->
        [tripId |-> trips[i].tripId,
         stopUpdates |->
             [j \in 1..Len(trips[i].stopTimeUpdate) |->
                 [stopSequence |-> trips[i].stopTimeUpdate[j].stopSequence,
                  arrival |-> RelayArrival(trips[i].stopTimeUpdate[j].arrival)]]]]

\* `su.arrival?.time`
ArrivalTime(su) == IF su.arrival.isNull THEN JsNull ELSE su.arrival.time

\* Array.prototype.sort by the numeric keys[i] of list[i] (stable): the element at index i
\* goes behind every element with a smaller key and every earlier element with
\* the same key.
SortByKey(list, keys) ==
    LET Rank(i) ==
            Cardinality({j \in 1..Len(list) :
                            \/ keys[j] < keys[i]
                            \/ (keys[j] = keys[i] /\ j < i)}) + 1
    IN  [p \in 1..Len(list) |-> list[CHOOSE i \in 1..Len(list) : Rank(i) = p]]

StopSequenceOf(su) == su.stopSequence
\* `a.arrival?.time || 0`
ArrivalTimeOrZero(su) == IF ArrivalTime(su).t = "num" THEN ArrivalTime(su).n ELSE 0

\* Strategy 1's filter and sort.
NextStops(stopUpdates, vehicleStopSequence) ==
    LET kept == SelectSeq(stopUpdates,
                          LAMBDA su : su.stopSequence > vehicleStopSequence.n
                                          /\ Truthy(ArrivalTime(su)))
    IN  SortByKey(kept, [i \in 1..Len(kept) |-> StopSequenceOf(kept[i])])

\* Strategy 2's filter and sort.
FutureStops(stopUpdates) ==
    LET kept == SelectSeq(stopUpdates,
                          LAMBDA su : Truthy(ArrivalTime(su))
                                          /\ JsGreater(ArrivalTime(su), NowSec))
    IN  SortByKey(kept, [i \in 1..Len(kept) |-> ArrivalTimeOrZero(kept[i])])

\* Math.max(0, Math.round((stop.arrival.time - nowSec) / 60))
EtaMin(su) ==
    MathMax(0, MathRoundDiv(JsMinus(su.arrival.time, NowSec), SecondsPerMinute))

getRealtimeEta(vehicleTripId, vehicleStopSequence, preds) ==
    IF vehicleTripId \in {NoTripId, ""} THEN JsNull
    ELSE LET found == {i \in 1..Len(preds) : preds[i].tripId = vehicleTripId}
         IN  IF found = {} THEN JsNull
             ELSE LET trip == preds[CHOOSE i \in found : \A k \in found : i <= k]
                      nextStops == NextStops(trip.stopUpdates, vehicleStopSequence)
                      futureStops == FutureStops(trip.stopUpdates)
                  IN  IF Len(trip.stopUpdates) = 0 THEN JsNull
                      ELSE IF /\ vehicleStopSequence.t # "null"
                              /\ Len(nextStops) > 0
                              /\ ~nextStops[1].arrival.isNull
                           THEN EtaMin(nextStops[1])
                      ELSE IF Len(futureStops) > 0 /\ ~futureStops[1].arrival.isNull
                           THEN EtaMin(futureStops[1])
                      ELSE JsNull

\* Math.max(1, Math.round(v.distanceMeters / 300))
DistanceEstimate(v) == Num(Max(1, RoundDiv(v.distanceMeters, MetersPerMinute)))

\* The callback of closestPerRoute.map in fetchNearbyVehicles.
ToNearbyVehicle(v, preds) ==
    LET realtimeEta == getRealtimeEta(v.tripId, v.currentStopSequence, preds)
    IN  [estimatedArrivalMins |->
             IF realtimeEta.t # "null" THEN realtimeEta ELSE DistanceEstimate(v),
         isRealtime |-> realtimeEta.t # "null"]

\* The poller is not running.
PollerAtRest ==
    /\ cache = EmptyCaches
    /\ lastFetch = NoFetches
    /\ isFetching = [f \in Feeds |-> FALSE]
    /\ inFlight = [f \in Feeds |-> 0]
    /\ clock = 0
    /\ lastGood = [f \in Feeds |-> <<>>]
    /\ slotAtStart = [f \in Feeds |-> <<>>]
    /\ firstPoll = [f \in Feeds |-> FALSE]
    /\ tickSkipped = FALSE
    /\ streakFeed = "vehicles"
    /\ failStreak = 0
    /\ healed = FALSE

\* fetchNearbyVehicles has the vehicle of one route and asks for the route's
\* predictions.
EtaInit ==
    /\ PollerAtRest
    /\ TripAtRest
    /\ SessionAtRest
    /\ NotifyAtRest
    /\ QueryAtRest
    /\ AppAtRest
    /\ vehicle \in Vehicles
    /\ feedTrips \in FeedTripBatches
    /\ predictions = <<>>
    /\ fetchOutcome = "none"
    /\ nearbyVehicle = <<>>
    /\ etaPc = "fetching"

\* fetchPredictions(routeId): the relay's predictions, or [] when the request
\* fails or times out.
fetchPredictions(outcome) ==
    /\ etaPc = "fetching"
    /\ fetchOutcome' = outcome
    /\ predictions' = IF outcome = "ok" THEN PredictionsEndpoint(feedTrips) ELSE <<>>
    /\ etaPc' = "mapping"
    /\ UNCHANGED <<vehicle, feedTrips, nearbyVehicle, pollerVars, pollerHist,
                   tripVars, sessionVars, notifyVars, queryVars, appVars>>

\* After Promise.all: the vehicle is mapped to its NearbyVehicle.
MapNearbyVehicle ==
    /\ etaPc = "mapping"
    /\ nearbyVehicle' = <<ToNearbyVehicle(vehicle, predictions)>>
    /\ etaPc' = "done"
    /\ UNCHANGED <<vehicle, feedTrips, predictions, fetchOutcome, pollerVars,
                   pollerHist, tripVars, sessionVars, notifyVars, queryVars, appVars>>

EtaNext ==
    \/ \E outcome \in {"ok", "error", "timeout"} : fetchPredictions(outcome)
    \/ MapNearbyVehicle

SpecEta == EtaInit /\ [][EtaNext]_vars


(***************************************************************************)
(* Claims about the ETA correlation engine.                                *)
(***************************************************************************)

\* A stop update carries a known arrival time: an arrival with a timestamp.
KnownArrival(su) ==
    ~su.arrival.isNull /\ su.arrival.time.t = "num" /\ su.arrival.time.n > 0

HasTripId == vehicle.tripId \notin {NoTripId, ""}

\* The TripUpdates of the fetched batch for the vehicle's trip.
MatchingTrips == {i \in 1..Len(predictions) : predictions[i].tripId = vehicle.tripId}

MatchedStopUpdates ==
    LET i == CHOOSE k \in MatchingTrips : TRUE
    IN  {predictions[i].stopUpdates[j] : j \in 1..Len(predictions[i].stopUpdates)}

\* Tier 1 has a stop: after the vehicle's reported stop sequence, with a known
\* arrival time.
Tier1Stops ==
    IF HasTripId /\ MatchingTrips # {} /\ vehicle.currentStopSequence.t = "num"
    THEN {su \in MatchedStopUpdates :
             su.stopSequence > vehicle.currentStopSequence.n /\ KnownArrival(su)}
    ELSE {}

\* Tier 2 has a stop: a known arrival time still in the future.
Tier2Stops ==
    IF HasTripId /\ MatchingTrips # {}
    THEN {su \in MatchedStopUpdates : KnownArrival(su) /\ su.arrival.time.n > NowSec}
    ELSE {}

TimeBasedEta(su) == Num(Max(0, RoundDiv(su.arrival.time.n - NowSec, SecondsPerMinute)))

Heuristic == Num(Max(1, RoundDiv(vehicle.distanceMeters, MetersPerMinute)))

\* C5 (as stated): with a TripUpdate for the vehicle's trip and a reported stop
\* sequence s, if some stop update after s has a known arrival time, the result
\* is the time-based ETA of the one with the smallest such stopSequence (stops
\* without an arrival time are skipped), with isRealtime = true.
C5_Tier1NextStop ==
    (etaPc = "done" /\ Tier1Stops # {})
        => /\ nearbyVehicle[1].isRealtime
           /\ nearbyVehicle[1].estimatedArrivalMins \in
                  {TimeBasedEta(su) :
                      su \in {x \in Tier1Stops :
                                 \A y \in Tier1Stops : x.stopSequence <= y.stopSequence}}

\* C6 (as stated): a vehicle without tripId, without a matching TripUpdate, or
\* whose trip has no usable stop time in either tier, gets
\* max(1, round(distanceMeters / 300)) with isRealtime = false.
C6_HeuristicTier ==
    (etaPc = "done" /\ Tier1Stops = {} /\ Tier2Stops = {})
        => nearbyVehicle[1] = [estimatedArrivalMins |-> Heuristic, isRealtime |-> FALSE]

\* C7 (as stated): whatever the prediction fetch did, estimatedArrivalMins is an
\* integer >= 0; isRealtime is true exactly when a prediction tier produced the
\* value, and otherwise the value is the distance heuristic and is >= 1.
C7_EtaNeverUnknown ==
    etaPc = "done"
        => /\ nearbyVehicle[1].estimatedArrivalMins.t = "num"
           /\ nearbyVehicle[1].estimatedArrivalMins.n >= 0
           /\ nearbyVehicle[1].isRealtime <=> (Tier1Stops # {} \/ Tier2Stops # {})
           /\ ~nearbyVehicle[1].isRealtime
                  => /\ nearbyVehicle[1].estimatedArrivalMins = Heuristic
                     /\ nearbyVehicle[1].estimatedArrivalMins.n >= 1

\* C31 (as stated): with a TripUpdate for the vehicle's trip and no tier-1
\* stop (no reported stop sequence, or no stop update after it with a known
\* arrival time), the result is the time-based ETA of the stop update with the
\* earliest arrival time still in the future, with isRealtime = true; without
\* such a stop update it is the distance heuristic.
C31_Tier2EarliestFuture ==
    (etaPc = "done" /\ HasTripId /\ MatchingTrips # {} /\ Tier1Stops = {})
        => IF Tier2Stops # {}
           THEN /\ nearbyVehicle[1].isRealtime
                /\ nearbyVehicle[1].estimatedArrivalMins \in
                       {TimeBasedEta(su) :
                           su \in {x \in Tier2Stops :
                                      \A y \in Tier2Stops :
                                          x.arrival.time.n <= y.arrival.time.n}}
           ELSE nearbyVehicle[1] =
                    [estimatedArrivalMins |-> Heuristic, isRealtime |-> FALSE]

(***************************************************************************)
(* The client: trip progress of the active trip screen                     *)
(* (ActiveTransitScreen).                                                   *)
(***************************************************************************)
\* an itinerary holds 0..MaxSteps steps
MaxSteps == 3
\* the device's wall clock runs over 0..MaxNow
MaxNow == 5
\* LOCATION_SETTINGS.TRIGGER_DISTANCE_METERS
TriggerDistanceMeters == 400

\* departureTimeValue of a transit leg, and arrivalTimeValue - departureTimeValue
\* (both are whole seconds, so a short hop can take 0 of them)
DepartureTimes == {1, 2, 3}
LegDurations == {0, 2}
NumStopsChoices == {1, 3}
\* distance of the location fix to the itinerary's last coordinate
Distances == {350, 400}

\* A walking leg has no transitDetails: its fields read as undefined (0 here).
WalkingStep ==
    [travelMode |-> "WALKING", departureTimeValue |-> 0, arrivalTimeValue |-> 0,
     numStops |-> 0]

\* A transit leg as /api/directions builds it: numStops = intermediateCount + 1.
TransitSteps ==
    {[travelMode |-> "TRANSIT", departureTimeValue |-> d,
      arrivalTimeValue |-> d + len, numStops |-> n] :
        d \in DepartureTimes, len \in LegDurations, n \in NumStopsChoices}

RouteSteps == {WalkingStep} \cup TransitSteps

Itineraries == UNION {[1..n -> RouteSteps] : n \in 0..MaxSteps}

\* The test of a step in determineCurrentStep's loop, alternative: the
\* travel mode and the presence of a departure time are not looked at
HasDepartedAnyMode(step, t) == t >= step.departureTimeValue

\* The test of a step in determineCurrentStep's loop, alternative: `now > ...`
HasDepartedStrictly(step, t) ==
    /\ step.travelMode = "TRANSIT"
    /\ step.departureTimeValue # 0
    /\ t > step.departureTimeValue

\* step.travelMode === 'TRANSIT' && step.transitDetails?.departureTimeValue
\*     && now >= step.transitDetails.departureTimeValue
HasDeparted(step, t) ==
    /\ step.travelMode = "TRANSIT"
    /\ step.departureTimeValue # 0
    /\ t >= step.departureTimeValue

\* for (let i = steps.length - 1; i >= 0; i--) ... return i;  return 0
RECURSIVE ScanBackward(_, _, _)
ScanBackward(stepList, t, i) ==
    IF i < 0 THEN 0
    ELSE IF HasDeparted(stepList[i + 1], t) THEN i
    ELSE ScanBackward(stepList, t, i - 1)

\* The same loop running from the first step to the last.
RECURSIVE ScanForward(_, _, _)
ScanForward(stepList, t, i) ==
    IF i >= Len(stepList) THEN 0
    ELSE IF HasDeparted(stepList[i + 1], t) THEN i
    ELSE ScanForward(stepList, t, i + 1)

determineCurrentStepFromFront(stepList, t) == ScanForward(stepList, t, 0)

\* determineCurrentStep(lat, lon, steps), with now = Date.now() / 1000 = t
determineCurrentStep(stepList, t) == ScanBackward(stepList, t, Len(stepList) - 1)

\* Math.floor(progress * numStops) with
\* progress = Math.max(0, Math.min(1, elapsed / totalDuration)):
\* 0 / 0 is NaN, x / 0 is +-Infinity, and Math.min and Math.max keep a NaN.
FloorProgress(numStops, elapsed, totalDuration) ==
    IF totalDuration = 0
    THEN IF elapsed = 0 THEN NaN
         ELSE IF elapsed > 0 THEN Num(numStops) ELSE Num(0)
    ELSE LET e == IF totalDuration < 0 THEN 0 - elapsed ELSE elapsed
             d == IF totalDuration < 0 THEN 0 - totalDuration ELSE totalDuration
         IN  IF e <= 0 THEN Num(0)
             ELSE IF e >= d THEN Num(numStops)
             ELSE Num((e * numStops) \div d)

\* Alternative: the stops travelled, Math.floor(progress * td.numStops)
RemainingCountsUp(td, t) ==
    FloorProgress(td.numStops, t - td.departureTimeValue,
                  td.arrivalTimeValue - td.departureTimeValue)

\* Math.max(0, td.numStops - Math.floor(progress * td.numStops))
Remaining(td, t) ==
    LET done == FloorProgress(td.numStops, t - td.departureTimeValue,
                              td.arrivalTimeValue - td.departureTimeValue)
    IN  IF done.t = "num" THEN Num(Max(0, td.numStops - done.n)) ELSE NaN

\* The "stops remaining" block of the location callback.
NextStopsRemaining(stepList, stepIdx, t, old) ==
    LET currentStep == stepList[stepIdx + 1]
    IN  IF currentStep.travelMode = "TRANSIT"
        THEN IF /\ currentStep.departureTimeValue # 0
                /\ currentStep.arrivalTimeValue # 0
                /\ currentStep.numStops # 0
             THEN Remaining(currentStep, t)
             ELSE old
        ELSE JsNull

\* Alternative: every TRANSIT step, the last one included
transitStepIndices(stepList) ==
    {i \in 0..(Len(stepList) - 1) : stepList[i + 1].travelMode = "TRANSIT"}

\* transferStepIndices: TRANSIT steps followed later by another TRANSIT step
transferStepIndices(stepList) ==
    {i \in 0..(Len(stepList) - 1) :
        /\ stepList[i + 1].travelMode = "TRANSIT"
        /\ \E j \in (i + 1)..(Len(stepList) - 1) : stepList[j + 1].travelMode = "TRANSIT"}

\* now >= twoStopsBefore && now < td.arrivalTimeValue, with
\* twoStopsBefore = arrivalTimeValue - 2 * (totalSeconds / numStops)
InTransferWindow(td, t) ==
    /\ td.arrivalTimeValue # 0 /\ td.departureTimeValue # 0
    /\ td.numStops > 2
    /\ (td.arrivalTimeValue - t) * td.numStops
           <= 2 * (td.arrivalTimeValue - td.departureTimeValue)
    /\ t < td.arrivalTimeValue

\* alertedTransfers.current.has(idx), alternative: the latch is not consulted
LatchIgnored(latched, idx) == FALSE

\* alertedTransfers.current.has(idx)
Latched(latched, idx) == idx \in latched

\* Alternative: the loop stands behind the destination block's early return
\* (`if (hasAlertedDestination.current || !routeData.coordinates?.length) return`).
TransferAlertsDueAfterReturn(stepList, latched, t) ==
    IF hasAlertedDestination \/ ~hasCoordinates THEN {}
    ELSE {idx \in transferStepIndices(stepList) :
             ~Latched(latched, idx) /\ InTransferWindow(stepList[idx + 1], t)}

\* The transfer alerts one run of the callback's loop triggers.
TransferAlertsDue(stepList, latched, t) ==
    {idx \in transferStepIndices(stepList) :
        ~Latched(latched, idx) /\ InTransferWindow(stepList[idx + 1], t)}

\* distance < LOCATION_SETTINGS.TRIGGER_DISTANCE_METERS, alternative: `<=`
WithinOrAtTriggerDistance(distance) == distance <= TriggerDistanceMeters

\* distance < LOCATION_SETTINGS.TRIGGER_DISTANCE_METERS
WithinTriggerDistance(distance) == distance < TriggerDistanceMeters

\* The destination alert's block: past the early return, the fix is near.
DestinationAlertDue(latch, coords, distance) ==
    ~(latch \/ ~coords) /\ WithinTriggerDistance(distance)

\* an alert counter stops counting here
MaxAlerts == 2

\* The trip screen is mounted with an itinerary and its location subscription
\* delivers updates.  The route's coordinates are its legs' polylines: a route
\* without steps has none.
TripInit ==
    /\ PollerAtRest
    /\ EtaAtRest
    /\ SessionAtRest
    /\ NotifyAtRest
    /\ QueryAtRest
    /\ AppAtRest
    /\ steps \in Itineraries
    /\ hasCoordinates \in (IF steps = <<>> THEN {FALSE} ELSE BOOLEAN)
    /\ wallClock = 0
    /\ currentStepIndex = 0
    /\ stopsRemaining = JsNull
    /\ alertedTransfers = {}
    /\ hasAlertedDestination = FALSE
    /\ lastUpdateAt = Null
    /\ prevStepIndex = Null
    /\ prevStopsRemaining = JsNull
    /\ transferAlerts = [i \in 0..(Len(steps) - 1) |-> 0]
    /\ destinationAlerts = 0

\* The body of the callback of Location.watchPositionAsync, over the routeData
\* of its closure (stepList, coords), for a fix at `distance` metres from the
\* itinerary's last coordinate.  With no steps, reading currentStep.travelMode
\* throws after setCurrentStepIndex.  The state setters act while the
\* component is rendered; the refs and the alerts do not depend on that.
LocationCallback(stepList, coords, distance, rendered) ==
    LET stepIdx == determineCurrentStep(stepList, wallClock)
        due == TransferAlertsDue(stepList, alertedTransfers, wallClock)
        arrived == DestinationAlertDue(hasAlertedDestination, coords, distance)
    IN  /\ currentStepIndex' = IF rendered THEN stepIdx ELSE currentStepIndex
        /\ lastUpdateAt' = wallClock
        /\ prevStepIndex' = currentStepIndex
        /\ prevStopsRemaining' = stopsRemaining
        /\ IF stepList = <<>>
           THEN UNCHANGED <<stopsRemaining, alertedTransfers, hasAlertedDestination,
                            transferAlerts, destinationAlerts>>
           ELSE /\ stopsRemaining' =
                       IF rendered
                       THEN NextStopsRemaining(stepList, stepIdx, wallClock,
                                               stopsRemaining)
                       ELSE stopsRemaining
                /\ alertedTransfers' = alertedTransfers \cup due
                /\ transferAlerts' =
                       [i \in DOMAIN transferAlerts |->
                           IF i \in due THEN Min(MaxAlerts, transferAlerts[i] + 1)
                           ELSE transferAlerts[i]]
                /\ hasAlertedDestination' = (hasAlertedDestination \/ arrived)
                /\ destinationAlerts' =
                       IF arrived THEN Min(MaxAlerts, destinationAlerts + 1)
                       ELSE destinationAlerts

\* A location update of the mounted trip screen.
LocationUpdate(distance) ==
    /\ LocationCallback(steps, hasCoordinates, distance, TRUE)
    /\ UNCHANGED <<steps, hasCoordinates, wallClock, pollerVars, pollerHist,
                   etaVars, sessionVars, notifyVars, queryVars, appVars>>

\* Time passes between two location updates.
TimePasses ==
    /\ wallClock < MaxNow
    /\ wallClock' = wallClock + 1
    /\ UNCHANGED <<steps, hasCoordinates, currentStepIndex, stopsRemaining,
                   alertedTransfers, hasAlertedDestination, lastUpdateAt,
                   prevStepIndex, prevStopsRemaining, transferAlerts,
                   destinationAlerts, pollerVars, pollerHist, etaVars,
                   sessionVars, notifyVars, queryVars, appVars>>

TripNext ==
    \/ \E distance \in Distances : LocationUpdate(distance)
    \/ TimePasses

SpecTrip == TripInit /\ [][TripNext]_vars


(***************************************************************************)
(* Claims about the trip progress.                                         *)
(***************************************************************************)

\* The transit steps that have departed at time t (0-based indices).
DepartedTransit(t) ==
    {i \in 0..(Len(steps) - 1) :
        steps[i + 1].travelMode = "TRANSIT" /\ t >= steps[i + 1].departureTimeValue}

Highest(S) == CHOOSE i \in S : \A j \in S : j <= i

\* C8: after a location update processed at time t, currentStepIndex is the
\* highest index of a transit step with t >= departureTime, and 0 when no
\* transit step has departed.
C8_ActiveStep ==
    lastUpdateAt # Null
        => currentStepIndex =
               IF DepartedTransit(lastUpdateAt) = {} THEN 0
               ELSE Highest(DepartedTransit(lastUpdateAt))

\* Three transit steps departing at t0 < t1 < t2, an update in [t1, t2): the
\* second step is active.
C8_Witness ==
    /\ Len(steps) = 3
    /\ \A i \in 1..3 : steps[i].travelMode = "TRANSIT"
    /\ steps[1].departureTimeValue < steps[2].departureTimeValue
    /\ steps[2].departureTimeValue < steps[3].departureTimeValue
    /\ lastUpdateAt # Null
    /\ lastUpdateAt >= steps[2].departureTimeValue
    /\ lastUpdateAt < steps[3].departureTimeValue
    /\ currentStepIndex = 1

\* C9: for a fixed itinerary and location updates at non-decreasing times,
\* currentStepIndex never decreases from one update to the next.
C9_NoRegression ==
    /\ [](prevStepIndex # Null => currentStepIndex >= prevStepIndex)
    /\ [][currentStepIndex' >= currentStepIndex]_vars

\* An itinerary whose departure times are not in step order, after an update
\* that moved the active step forward from the one an earlier update had set.
C9_Witness ==
    /\ \E i, j \in 1..Len(steps) :
           /\ i < j
           /\ steps[i].travelMode = "TRANSIT" /\ steps[j].travelMode = "TRANSIT"
           /\ steps[i].departureTimeValue > steps[j].departureTimeValue
    /\ prevStepIndex # Null
    /\ prevStepIndex >= 1
    /\ currentStepIndex > prevStepIndex

ActiveStep == steps[currentStepIndex + 1]

\* C10 (as stated): for the active transit step, an update processed at
\* now = departureTime yields stopsRemaining = numStops, an update processed at
\* now >= arrivalTime yields 0, and in between the value is
\* max(0, numStops - floor(progress * numStops)).  Where departureTime and
\* arrivalTime coincide, either boundary value is accepted.
C10_StopsRemainingBoundaries ==
    (lastUpdateAt # Null /\ steps # <<>> /\ ActiveStep.travelMode = "TRANSIT")
        => LET td == ActiveStep
               t == lastUpdateAt
           IN  /\ (t = td.departureTimeValue /\ t < td.arrivalTimeValue)
                      => stopsRemaining = Num(td.numStops)
               /\ (t >= td.arrivalTimeValue /\ t # td.departureTimeValue)
                      => stopsRemaining = Num(0)
               /\ (t = td.departureTimeValue /\ t >= td.arrivalTimeValue)
                      => stopsRemaining \in {Num(td.numStops), Num(0)}
               /\ (td.departureTimeValue < t /\ t < td.arrivalTimeValue)
                      => stopsRemaining =
                             Num(Max(0, td.numStops -
                                 ((t - td.departureTimeValue) * td.numStops)
                                     \div (td.arrivalTimeValue - td.departureTimeValue)))

\* A location update is processed.
UpdateStep == \E distance \in Distances : LocationUpdate(distance)

\* C11: across successive location updates at non-decreasing times that leave
\* currentStepIndex on the same transit step, stopsRemaining never increases.
C11_StopsNeverIncrease ==
    /\ []((/\ prevStepIndex = currentStepIndex
           /\ prevStopsRemaining.t = "num"
           /\ stopsRemaining.t = "num")
              => stopsRemaining.n <= prevStopsRemaining.n)
    /\ [][(/\ UpdateStep
           /\ lastUpdateAt # Null
           /\ currentStepIndex' = currentStepIndex
           /\ stopsRemaining.t = "num"
           /\ stopsRemaining'.t = "num")
              => stopsRemaining'.n <= stopsRemaining.n]_vars

\* Two updates on the same transit step, the later one with fewer stops left.
C11_Witness ==
    /\ steps # <<>>
    /\ ActiveStep.travelMode = "TRANSIT"
    /\ prevStepIndex = currentStepIndex
    /\ prevStopsRemaining.t = "num"
    /\ stopsRemaining.t = "num"
    /\ prevStopsRemaining.n = ActiveStep.numStops - 1
    /\ stopsRemaining.n = 0

\* The alert window of a step, as the itinerary's timestamps give it:
\* more than 2 stops and arrival - 2 * (arrival - departure) / numStops <= t < arrival.
InAlertWindow(td, t) ==
    /\ td.numStops > 2
    /\ td.numStops * (td.arrivalTimeValue - t)
           <= 2 * (td.arrivalTimeValue - td.departureTimeValue)
    /\ t < td.arrivalTimeValue

\* The transit steps that are followed later by another transit step.
TransferSteps ==
    {i \in 0..(Len(steps) - 1) :
        /\ steps[i + 1].travelMode = "TRANSIT"
        /\ \E j \in 0..(Len(steps) - 1) : j > i /\ steps[j + 1].travelMode = "TRANSIT"}

C13_TransferAlertCondition ==
    [][UpdateStep
           => \A i \in DOMAIN transferAlerts :
                  transferAlerts'[i] # transferAlerts[i]
                      => (i \in TransferSteps /\ InAlertWindow(steps[i + 1], wallClock))]_vars

\* An alert has fired for a transfer step, while the last transit step, in its
\* own window at the last update, has none.
C13_Witness ==
    /\ \E i \in TransferSteps : transferAlerts[i] = 1
    /\ lastUpdateAt # Null
    /\ \E j \in 0..(Len(steps) - 1) :
           /\ steps[j + 1].travelMode = "TRANSIT"
           /\ j \notin TransferSteps
           /\ InAlertWindow(steps[j + 1], lastUpdateAt)
           /\ transferAlerts[j] = 0

\* C14: the destination alert fires at most once, on the first update whose
\* distance to the final coordinate is below 400 m, whatever the time, the
\* steps' timestamps and currentStepIndex; no update at 400 m or more fires it.
C14_DestinationAlert ==
    /\ [](destinationAlerts <= 1)
    /\ [][\A distance \in Distances :
              LocationUpdate(distance)
                  => ((destinationAlerts' # destinationAlerts)
                          <=> (/\ hasCoordinates
                               /\ destinationAlerts = 0
                               /\ distance < 400))]_vars

\* The alert has fired once and two updates have been processed since the
\* active step moved past step 0.
C14_Witness ==
    /\ destinationAlerts = 1
    /\ prevStepIndex # Null
    /\ prevStepIndex >= 1
    /\ currentStepIndex = prevStepIndex

\* The stops left on leg td at time t, for a leg that takes time:
\* numStops - floor(progress * numStops), progress being the elapsed share of
\* the leg's duration held within [0, 1].
StopsLeft(td, t) ==
    LET total == td.arrivalTimeValue - td.departureTimeValue
        elapsed == Max(0, Min(total, t - td.departureTimeValue))
    IN  td.numStops - ((elapsed * td.numStops) \div total)

\* C35 (as stated): after a processed location update stopsRemaining is null
\* if the active step is no transit step, and otherwise an integer in
\* [0, numStops] of the active step, computed from that step's departure and
\* arrival times.
C35_StopsOfActiveStep ==
    (lastUpdateAt # Null /\ steps # <<>>)
        => IF ActiveStep.travelMode # "TRANSIT"
           THEN stopsRemaining = JsNull
           ELSE /\ stopsRemaining.t = "num"
                /\ stopsRemaining.n \in 0..ActiveStep.numStops
                /\ ActiveStep.arrivalTimeValue > ActiveStep.departureTimeValue
                       => stopsRemaining.n = StopsLeft(ActiveStep, lastUpdateAt)

\* C36: after a processed location update currentStepIndex is 0 or the index
\* of a transit step that has departed; it is no walking step other than step
\* 0, and it lies within a non-empty step sequence.
C36_ActiveStepIsTransitOrFirst ==
    lastUpdateAt # Null
        => /\ \/ currentStepIndex = 0
              \/ /\ currentStepIndex \in 1..(Len(steps) - 1)
                 /\ ActiveStep.travelMode = "TRANSIT"
                 /\ ActiveStep.departureTimeValue <= lastUpdateAt
           /\ steps # <<>> => currentStepIndex \in 0..(Len(steps) - 1)

\* Walk, ride, walk: an update after the ride has arrived leaves the ride
\* the active step.
C36_Witness ==
    /\ Len(steps) = 3
    /\ steps[1].travelMode = "WALKING"
    /\ steps[2].travelMode = "TRANSIT"
    /\ steps[3].travelMode = "WALKING"
    /\ lastUpdateAt # Null
    /\ lastUpdateAt > steps[2].arrivalTimeValue
    /\ currentStepIndex = 1

\* C32: on a location update the transfer alerts that fire are those of the
\* transfer steps in their window with a clear latch, whether or not the
\* destination alert has fired and whether or not the itinerary has
\* coordinates; no other transfer latch changes; and the destination latch
\* is set by the coordinates and the distance alone.
C32_IndependentLatches ==
    [][\A distance \in Distances :
           LocationUpdate(distance)
               => LET firing ==
                          {i \in TransferSteps :
                              /\ i \notin alertedTransfers
                              /\ InAlertWindow(steps[i + 1], wallClock)}
                  IN  /\ alertedTransfers' = alertedTransfers \cup firing
                      /\ \A i \in DOMAIN transferAlerts :
                             transferAlerts'[i] =
                                 IF i \in firing THEN transferAlerts[i] + 1
                                 ELSE transferAlerts[i]
                      /\ hasAlertedDestination' =
                             (hasAlertedDestination
                                 \/ (hasCoordinates /\ distance < 400))]_vars

\* Of two transfer steps of an itinerary without coordinates one has alerted
\* and the other has not; the destination alert has not fired.
C32_Witness ==
    /\ ~hasCoordinates
    /\ ~hasAlertedDestination
    /\ Cardinality(TransferSteps) = 2
    /\ Cardinality(alertedTransfers) = 1
    /\ \E i \in TransferSteps : transferAlerts[i] = 1
    /\ \E i \in TransferSteps : transferAlerts[i] = 0

(***************************************************************************)
(* The client: persistent trip notification (NotificationService).         *)
(*                                                                         *)
(* The trip screen calls updateTripNotification from an effect and         *)
(* dismissTripNotification from its unmount cleanup.  Neither is awaited:  *)
(* each call runs up to its next await and resumes when that settles.      *)
(***************************************************************************)
\* the trip screen makes 0..MaxUpdates updateTripNotification calls
MaxUpdates == 3

\* what the notification calls leave alone
notifyOthers == <<pollerVars, pollerHist, etaVars, tripVars, sessionVars, queryVars, appVars>>

RemoveAt(seq, i) == [j \in 1..(Len(seq) - 1) |-> IF j < i THEN seq[j] ELSE seq[j + 1]]

SetAt(seq, i, x) == [seq EXCEPT ![i] = x]

\* The trip screen is mounted; no trip notification has been posted.
NotifyInit ==
    /\ PollerAtRest
    /\ EtaAtRest
    /\ TripAtRest
    /\ SessionAtRest
    /\ QueryAtRest
    /\ AppAtRest
    /\ tripNotificationId = Null
    /\ displayed = {}
    /\ calls = <<>>
    /\ posted = 0
    /\ updatesStarted = 0
    /\ screenExited = FALSE

\* The effect calls updateTripNotification(...): the call runs up to
\* `await import('expo-notifications')`.
StartUpdate ==
    /\ ~screenExited
    /\ updatesStarted < MaxUpdates
    /\ updatesStarted' = updatesStarted + 1
    /\ calls' = Append(calls, [kind |-> "update", pc |-> "import", arg |-> Null])
    /\ UNCHANGED <<tripNotificationId, displayed, posted, screenExited,
                   notifyOthers>>

\* updateTripNotification after the import: `if (tripNotificationId)` it asks
\* for the dismissal of that notification, otherwise it schedules the new one.
UpdateImported(i) ==
    /\ calls[i].kind = "update" /\ calls[i].pc = "import"
    /\ calls' = IF tripNotificationId # Null
                THEN SetAt(calls, i, [kind |-> "update", pc |-> "dismissing",
                                      arg |-> tripNotificationId])
                ELSE SetAt(calls, i, [kind |-> "update", pc |-> "scheduling",
                                      arg |-> Null])
    /\ UNCHANGED <<tripNotificationId, displayed, posted, updatesStarted, screenExited,
                   notifyOthers>>

\* updateTripNotification after dismissNotificationAsync: it schedules the new
\* notification.
UpdateDismissed(i) ==
    /\ calls[i].kind = "update" /\ calls[i].pc = "dismissing"
    /\ displayed' = displayed \ {calls[i].arg}
    /\ calls' = SetAt(calls, i, [kind |-> "update", pc |-> "scheduling", arg |-> Null])
    /\ UNCHANGED <<tripNotificationId, posted, updatesStarted, screenExited,
                   notifyOthers>>

\* updateTripNotification after scheduleNotificationAsync (trigger: null): the
\* notification is shown and its identifier stored.
UpdateScheduled(i) ==
    /\ calls[i].kind = "update" /\ calls[i].pc = "scheduling"
    /\ posted' = posted + 1
    /\ displayed' = displayed \cup {posted + 1}
    /\ tripNotificationId' = posted + 1
    /\ calls' = RemoveAt(calls, i)
    /\ UNCHANGED <<updatesStarted, screenExited,
                   notifyOthers>>

\* The unmount cleanup calls dismissTripNotification(): `if (tripNotificationId)`
\* the call runs up to its import, otherwise it is over.
ExitScreen ==
    /\ ~screenExited
    /\ screenExited' = TRUE
    /\ calls' = IF tripNotificationId # Null
                THEN Append(calls, [kind |-> "dismiss", pc |-> "import", arg |-> Null])
                ELSE calls
    /\ UNCHANGED <<tripNotificationId, displayed, posted, updatesStarted,
                   notifyOthers>>

\* dismissTripNotification after the import: it asks for the dismissal of the
\* notification tripNotificationId names now.
DismissImported(i) ==
    /\ calls[i].kind = "dismiss" /\ calls[i].pc = "import"
    /\ calls' = SetAt(calls, i, [kind |-> "dismiss", pc |-> "dismissing",
                                 arg |-> tripNotificationId])
    /\ UNCHANGED <<tripNotificationId, displayed, posted, updatesStarted, screenExited,
                   notifyOthers>>

\* dismissTripNotification after dismissNotificationAsync: tripNotificationId = null
DismissDone(i) ==
    /\ calls[i].kind = "dismiss" /\ calls[i].pc = "dismissing"
    /\ displayed' = displayed \ {calls[i].arg}
    /\ tripNotificationId' = Null
    /\ calls' = RemoveAt(calls, i)
    /\ UNCHANGED <<posted, updatesStarted, screenExited,
                   notifyOthers>>

NotifyNext ==
    \/ StartUpdate
    \/ \E i \in 1..Len(calls) : UpdateImported(i)
    \/ \E i \in 1..Len(calls) : UpdateDismissed(i)
    \/ \E i \in 1..Len(calls) : UpdateScheduled(i)
    \/ ExitScreen
    \/ \E i \in 1..Len(calls) : DismissImported(i)
    \/ \E i \in 1..Len(calls) : DismissDone(i)

SpecNotify == NotifyInit /\ [][NotifyNext]_vars

(***************************************************************************)
(* Claims about the persistent trip notification.                          *)
(***************************************************************************)

\* C15 (as stated): whatever the overlap of updateTripNotification calls, at
\* most one trip notification is displayed at any time and the stored handle
\* identifies the one displayed.
C15_OneNotification ==
    /\ Cardinality(displayed) <= 1
    /\ displayed # {} => displayed = {tripNotificationId}

\* C16 (as stated): once the screen has exited and every notification call it
\* started has completed, no trip notification remains displayed.
C16_DismissedOnExit ==
    (screenExited /\ calls = <<>>) => displayed = {}

(***************************************************************************)
(* The client: lifecycle of the trip session (ActiveTransitScreen).        *)
(*                                                                         *)
(* On mount the screen starts loadCachedIfNeeded and the first run of the  *)
(* location effect; the effect runs again when routeData changes, and its  *)
(* cleanup runs before that and on unmount.  AsyncStorage serves its       *)
(* requests in the order they were issued, so the getItem of               *)
(* loadCachedIfNeeded reads what was stored when the screen mounted.       *)
(***************************************************************************)
\* what the session's lifecycle steps leave alone
sessionOthers == <<pollerVars, pollerHist, etaVars, notifyVars, queryVars, appVars>>

\* what the lifecycle steps other than a location callback leave alone
tripProgress ==
    <<wallClock, currentStepIndex, stopsRemaining, alertedTransfers,
      hasAlertedDestination, lastUpdateAt, prevStepIndex, prevStopsRemaining,
      destinationAlerts>>

\* The itinerary the route planner answered with, and the one of an earlier
\* session left under 'active_route'.
LiveSteps ==
    <<[travelMode |-> "TRANSIT", departureTimeValue |-> 1, arrivalTimeValue |-> 3,
       numStops |-> 3],
      [travelMode |-> "TRANSIT", departureTimeValue |-> 3, arrivalTimeValue |-> 5,
       numStops |-> 3]>>

CachedSteps ==
    <<WalkingStep,
      [travelMode |-> "TRANSIT", departureTimeValue |-> 2, arrivalTimeValue |-> 4,
       numStops |-> 1]>>

StoredRoutes ==
    {NoStoredRoute,
     [kind |-> "corrupt", steps |-> <<>>],
     [kind |-> "route", steps |-> <<>>],
     [kind |-> "route", steps |-> CachedSteps]}

\* `!route.params.route?.steps?.length`, alternative: the cache is always read
AlwaysLoadCached(stepList) == TRUE

\* `!route.params.route?.steps?.length`
NeedsCachedRoute(stepList) == Len(stepList) = 0

\* getObject('active_route') followed by `cached?.steps?.length`: nothing
\* stored and unparsable JSON both give undefined.
CachedRouteUsable(raw) == raw.kind = "route" /\ Len(raw.steps) > 0

\* A run of the location effect: init() has been called and awaits getBoolean.
NewRun(stepList) ==
    [pc |-> "getBoolean", closure |-> stepList, sub |-> Null, cleaned |-> FALSE]

\* The effect's cleanup for its latest run:
\* `if (locationSubscription) locationSubscription.remove()`
CleanedUp(runList) ==
    [runList EXCEPT ![Len(runList)].cleaned = TRUE]

LiveAfterCleanup(runList, live) ==
    IF runList[Len(runList)].sub # Null
    THEN live \ {runList[Len(runList)].sub}
    ELSE live

\* The screen has mounted and its mount effects have run.
SessionMounted ==
    /\ EtaAtRest
    /\ NotifyAtRest
    /\ mounted = "mounted"
    /\ paramSteps \in {<<>>, LiveSteps}
    /\ storedRoute \in StoredRoutes
    /\ cachedRead = storedRoute
    /\ cachedLoad = IF NeedsCachedRoute(paramSteps) THEN "reading" ELSE "skipped"
    /\ isOffline = FALSE
    /\ isTracking = FALSE
    /\ runs = <<NewRun(paramSteps)>>
    /\ liveSubs = {}
    /\ callbackAfterExit = FALSE
    /\ steps = paramSteps
    /\ hasCoordinates = (paramSteps # <<>>)
    /\ wallClock = 0
    /\ currentStepIndex = 0
    /\ stopsRemaining = JsNull
    /\ alertedTransfers = {}
    /\ hasAlertedDestination = FALSE
    /\ lastUpdateAt = Null
    /\ prevStepIndex = Null
    /\ prevStopsRemaining = JsNull
    /\ transferAlerts = [i \in 0..(Len(paramSteps) - 1) |-> 0]
    /\ destinationAlerts = 0

SessionInit ==
    /\ PollerAtRest
    /\ QueryAtRest
    /\ AppAtRest
    /\ SessionMounted

\* loadCachedIfNeeded after `await getObject('active_route')`:
\* setRouteData(cached); setIsOffline(true) - and, routeData having changed, the
\* location effect's cleanup and its next run.  On an unmounted component the
\* setters do nothing.  The getItem was issued at mount and AsyncStorage
\* promises no order between it and a setItem issued later: it has read the
\* value stored at mount or the value stored now.
CachedLoadResolves ==
    /\ cachedLoad = "reading"
    /\ \E raw \in {cachedRead, storedRoute} :
          /\ cachedRead' = raw
          /\ IF CachedRouteUsable(raw) /\ mounted = "mounted"
             THEN /\ cachedLoad' = "done"
                  /\ steps' = raw.steps
                  /\ hasCoordinates' = TRUE
                  /\ isOffline' = TRUE
                  /\ transferAlerts' = [i \in 0..(Len(raw.steps) - 1) |-> 0]
                  /\ runs' = Append(CleanedUp(runs), NewRun(raw.steps))
                  /\ liveSubs' = LiveAfterCleanup(runs, liveSubs)
             ELSE /\ cachedLoad' = IF CachedRouteUsable(raw) THEN "dropped" ELSE "done"
                  /\ UNCHANGED <<steps, hasCoordinates, isOffline, transferAlerts, runs,
                                 liveSubs>>
    /\ UNCHANGED <<mounted, paramSteps, isTracking, storedRoute,
                   callbackAfterExit, tripProgress, sessionOthers>>

\* init() after `await getBoolean('accessibility_mode')`: saveToStorage is called.
GetBooleanResolves(r) ==
    /\ runs[r].pc = "getBoolean"
    /\ runs' = [runs EXCEPT ![r].pc = "save"]
    /\ UNCHANGED <<mounted, paramSteps, isOffline, isTracking, storedRoute,
                   cachedRead, cachedLoad, liveSubs, callbackAfterExit, steps,
                   hasCoordinates, transferAlerts, tripProgress, sessionOthers>>

\* init() after `await saveToStorage('active_route', routeData)`: the run's
\* routeData is stored; the permission request is made.
SaveResolves(r) ==
    /\ runs[r].pc = "save"
    /\ storedRoute' = [kind |-> "route", steps |-> runs[r].closure]
    /\ runs' = [runs EXCEPT ![r].pc = "permission"]
    /\ UNCHANGED <<mounted, paramSteps, isOffline, isTracking, cachedRead,
                   cachedLoad, liveSubs, callbackAfterExit, steps, hasCoordinates,
                   transferAlerts, tripProgress, sessionOthers>>

\* init() after requestForegroundPermissionsAsync: it returns unless granted.
PermissionResolves(r, granted) ==
    /\ runs[r].pc = "permission"
    /\ runs' = [runs EXCEPT ![r].pc = IF granted THEN "notifPermission" ELSE "denied"]
    /\ UNCHANGED <<mounted, paramSteps, isOffline, isTracking, storedRoute,
                   cachedRead, cachedLoad, liveSubs, callbackAfterExit, steps,
                   hasCoordinates, transferAlerts, tripProgress, sessionOthers>>

\* init() after requestNotificationPermissions: setIsTracking(true), then
\* Location.watchPositionAsync is called.
NotifPermissionResolves(r) ==
    /\ runs[r].pc = "notifPermission"
    /\ runs' = [runs EXCEPT ![r].pc = "watch"]
    /\ isTracking' = (isTracking \/ mounted = "mounted")
    /\ UNCHANGED <<mounted, paramSteps, isOffline, storedRoute, cachedRead,
                   cachedLoad, liveSubs, callbackAfterExit, steps, hasCoordinates,
                   transferAlerts, tripProgress, sessionOthers>>

\* init() after `await Location.watchPositionAsync(...)`: the subscription
\* exists and is assigned to the run's locationSubscription.
WatchResolves(r) ==
    /\ runs[r].pc = "watch"
    /\ runs' = [runs EXCEPT ![r].pc = "subscribed", ![r].sub = r]
    /\ liveSubs' = liveSubs \cup {r}
    /\ UNCHANGED <<mounted, paramSteps, isOffline, isTracking, storedRoute,
                   cachedRead, cachedLoad, callbackAfterExit, steps, hasCoordinates,
                   transferAlerts, tripProgress, sessionOthers>>

\* The screen unmounts: the cleanup of the location effect's latest run.
ExitSession ==
    /\ mounted = "mounted"
    /\ mounted' = "exited"
    /\ runs' = CleanedUp(runs)
    /\ liveSubs' = LiveAfterCleanup(runs, liveSubs)
    /\ UNCHANGED <<paramSteps, isOffline, isTracking, storedRoute, cachedRead,
                   cachedLoad, callbackAfterExit, steps, hasCoordinates,
                   transferAlerts, tripProgress, sessionOthers>>

\* A subscription delivers a location update to the callback of its run.
ProcessLocation(r, distance) ==
    /\ r \in liveSubs
    /\ LocationCallback(runs[r].closure, runs[r].closure # <<>>, distance,
                        mounted = "mounted")
    /\ callbackAfterExit' = (callbackAfterExit \/ mounted = "exited")
    /\ UNCHANGED <<mounted, paramSteps, isOffline, isTracking, storedRoute,
                   cachedRead, cachedLoad, runs, liveSubs, steps, hasCoordinates,
                   wallClock, sessionOthers>>

SessionNext ==
    \/ CachedLoadResolves
    \/ \E r \in 1..Len(runs) : GetBooleanResolves(r)
    \/ \E r \in 1..Len(runs) : SaveResolves(r)
    \/ \E r \in 1..Len(runs) : \E granted \in BOOLEAN : PermissionResolves(r, granted)
    \/ \E r \in 1..Len(runs) : NotifPermissionResolves(r)
    \/ \E r \in 1..Len(runs) : WatchResolves(r)
    \/ ExitSession
    \/ \E r \in 1..Len(runs) : \E distance \in Distances : ProcessLocation(r, distance)

SpecSession == SessionInit /\ [][SessionNext]_vars

(***************************************************************************)
(* Claims about the session's lifecycle.                                   *)
(***************************************************************************)

\* Every run of init() is over or holds its subscription.
StartUpSettled ==
    \A r \in 1..Len(runs) : runs[r].pc \in {"denied", "subscribed"}

\* C17 (as stated): after the session has ended no location callback of the
\* session is processed, and once start-up has settled no subscription of the
\* session is left, whatever the interleaving of teardown and start-up.
C17_LocationTeardown ==
    /\ ~callbackAfterExit
    /\ (mounted = "exited" /\ StartUpSettled) => liveSubs = {}

C40_CacheNotClobbered ==
    [][/\ (/\ paramSteps = <<>>
            /\ storedRoute.kind = "route"
            /\ storedRoute.steps # <<>>)
               => ~(storedRoute'.kind = "route" /\ storedRoute'.steps = <<>>)
       /\ (paramSteps = <<>> /\ cachedLoad = "reading" /\ cachedLoad' # "reading")
               => cachedRead' = cachedRead]_vars

MaxFleet == 12
\* alertsCache holds up to MaxAlertEntities entities
MaxAlertEntities == 2
\* `nearby.slice(0, 10)`
NearbyLimit == 10
\* `parseFloat(req.query.radius) || 800`
DefaultRadius == 800

Digits == <<"0", "1", "2", "3", "4", "5", "6", "7", "8", "9">>

RECURSIVE DigitsPrefixValue(_, _)
\* the value of the leading decimal digits of str, after acc
DigitsPrefixValue(str, acc) ==
    IF str = <<>> \/ \A d \in 1..Len(Digits) : Digits[d] # Head(str)
    THEN acc
    ELSE LET value == (CHOOSE d \in 1..Len(Digits) : Digits[d] = Head(str)) - 1
         IN  DigitsPrefixValue(Tail(str), Len(Digits) * acc + value)

\* parseFloat(raw) of an absent parameter or of a string: the number its
\* leading digits spell, NaN if it does not start with a digit.
parseFloat(raw) ==
    IF raw.t = "absent" THEN NaN
    ELSE IF raw.s = <<>> \/ \A d \in 1..Len(Digits) : Digits[d] # Head(raw.s) THEN NaN
    ELSE Num(DigitsPrefixValue(raw.s, 0))

\* `parseFloat(req.query.radius as string) || 800`
RadiusOrDefault(raw) ==
    IF Truthy(parseFloat(raw)) THEN parseFloat(raw).n ELSE DefaultRadius

\* haversineMeters between two points of the meridian, in tenths of a metre
haversineTenths(lat1, lat2) == IF lat1 >= lat2 THEN lat1 - lat2 ELSE lat2 - lat1

\* `!v?.position?.latitude || !v?.position?.longitude`: no position, or a
\* coordinate of 0
LacksPosition(entity) == entity.position = Null \/ entity.position = 0

\* The latitudes of the vehicles of the feed, and a vehicle without position.
VehiclePositions == {Null, 1000, 1004, 1006, 2000, 9000, 9004}

\* A decoded vehicle feed of n entities whose positions repeat a pattern.
VehicleFeed(pattern, n) ==
    [i \in 1..n |-> [id |-> i, position |-> pattern[((i - 1) % Len(pattern)) + 1]]]

VehicleFeeds ==
    {<<>>} \cup
    {VehicleFeed(pattern, n) :
        pattern \in {<<a>> : a \in VehiclePositions}
                    \cup {<<a, b>> : a \in VehiclePositions, b \in VehiclePositions},
        n \in {1, MaxFleet}}

\* An entity of the alerts feed: with or without its `alert`, and the routeId
\* of each informed entity; an informed entity without a route has the empty
\* string.
AlertEntityKinds ==
    {[alert |-> FALSE, informedEntity |-> <<>>],
     [alert |-> TRUE, informedEntity |-> <<>>],
     [alert |-> TRUE, informedEntity |-> <<<<>>>>],
     [alert |-> TRUE, informedEntity |-> <<<<"1">>>>],
     [alert |-> TRUE, informedEntity |-> <<<<"2">>, <<>>>>],
     [alert |-> TRUE, informedEntity |-> <<<<"1", "2">>, <<"2">>>>]}

AlertFeeds ==
    UNION {[1..n -> AlertEntityKinds] : n \in 0..MaxAlertEntities}

\* What a caller sends as lat, lon, radius and routes.
LatStrings ==
    {Absent, Str(<<"1", "0", "0", "0">>), Str(<<"1", "0", "0", "4">>), Str(<<"x">>)}
LonStrings == {Absent, Str(<<"7", "9">>)}
RadiusStrings ==
    {Absent, Str(<<>>), Str(<<"0">>), Str(<<"1">>), Str(<<"1", "0", "0">>),
     Str(<<"8", "0", "0">>), Str(<<"x">>)}
RouteFilters ==
    {Absent} \cup {Str(chars) : chars \in UNION {[1..n -> {"1", "2", ","}] : n \in 0..3}}

\* The loop over vehicleCache: the entries pushed to `nearby`, in cache order
\* (`dist <= radius`, `Math.round(dist)`; a metre is 10 tenths).
NearbyOf(vehicleCache, lat, radius) ==
    LET Pushed(entity) ==
            /\ ~LacksPosition(entity)
            /\ haversineTenths(lat, entity.position) <= radius * 10
        Entry(entity) ==
            [id |-> entity.id,
             distanceMeters |-> RoundDiv(haversineTenths(lat, entity.position), 10)]
        kept == SelectSeq(vehicleCache, Pushed)
    IN  [k \in 1..Len(kept) |-> Entry(kept[k])]

\* GET /api/nearby
GetNearby(latRaw, lonRaw, radiusRaw) ==
    LET lat == parseFloat(latRaw)
        lon == parseFloat(lonRaw)
        radius == RadiusOrDefault(radiusRaw)
    IN  \E nearby \in {NearbyOf(cache["vehicles"], lat.n, radius)} :
        \E keys \in {[k \in 1..Len(nearby) |-> nearby[k].distanceMeters]} :
        \E sorted \in {SortByKey(nearby, keys)} :
        /\ query' = [endpoint |-> "nearby", lat |-> latRaw, lon |-> lonRaw,
                     radius |-> radiusRaw, routes |-> Absent]
        /\ reply' = IF lat = NaN \/ lon = NaN
                    THEN [status |-> 400, nearby |-> <<>>, total |-> 0, alerts |-> <<>>]
                    ELSE [status |-> 200,
                          nearby |-> SubSeq(sorted, 1, Min(Len(sorted), NearbyLimit)),
                          total |-> Len(nearby), alerts |-> <<>>]
        /\ UNCHANGED <<pollerVars, pollerHist, clientVars, appVars>>

\* `(alert.informedEntity || []).filter(e => e.routeId).map(e => e.routeId)`
AffectedRouteIds(informedEntity) ==
    LET HasRouteId(routeId) == routeId # <<>>
    IN  SelectSeq(informedEntity, HasRouteId)

\* `alertsCache.map(...).filter(Boolean)`
MappedAlerts(alertsCache) ==
    LET indexed == [i \in 1..Len(alertsCache) |->
                        [id |-> i, alert |-> alertsCache[i].alert,
                         affectedRouteIds |->
                             AffectedRouteIds(alertsCache[i].informedEntity)]]
        HasAlert(e) == e.alert
    IN  SelectSeq(indexed, HasAlert)

RECURSIVE Split(_)
\* `routeFilter.split(',')`
Split(str) ==
    IF \A i \in 1..Len(str) : str[i] # ","
    THEN <<str>>
    ELSE LET i == CHOOSE c \in 1..Len(str) :
                      str[c] = "," /\ \A b \in 1..(c - 1) : str[b] # ","
         IN  <<SubSeq(str, 1, i - 1)>> \o Split(SubSeq(str, i + 1, Len(str)))

\* the filter's predicate, alternative: without the system-wide clause
MatchesSomeRoute(a, filterIds) ==
    \E k \in 1..Len(a.affectedRouteIds) :
        \E f \in 1..Len(filterIds) : filterIds[f] = a.affectedRouteIds[k]

\* `a.affectedRouteIds.length === 0 ||
\*  a.affectedRouteIds.some(id => filterIds.includes(id))`
MatchesFilter(a, filterIds) ==
    \/ Len(a.affectedRouteIds) = 0
    \/ \E k \in 1..Len(a.affectedRouteIds) :
           \E f \in 1..Len(filterIds) : filterIds[f] = a.affectedRouteIds[k]

\* GET /api/alerts: `if (routeFilter)` is false for an absent parameter and
\* for the empty string.
AlertsReply(alertsCache, routeFilter) ==
    LET alerts == MappedAlerts(alertsCache)
        Matches(a) == MatchesFilter(a, Split(routeFilter.s))
    IN  [status |-> 200, nearby |-> <<>>, total |-> 0,
         alerts |-> IF routeFilter.t = "str" /\ routeFilter.s # <<>>
                    THEN SelectSeq(alerts, Matches)
                    ELSE alerts]

AlertsQuery(routeFilter) ==
    [endpoint |-> "alerts", lat |-> Absent, lon |-> Absent, radius |-> Absent,
     routes |-> routeFilter]

GetAlerts(routeFilter) ==
        /\ query' = AlertsQuery(routeFilter)
        /\ reply' = AlertsReply(cache["alerts"], routeFilter)
        /\ UNCHANGED <<pollerVars, pollerHist, clientVars, appVars>>

\* The relay between two polls, each feed fetched once; no request served yet.
\* The two handlers read different feeds: one of the two feeds is empty.
QueryInit ==
    /\ ClientAtRest
    /\ QueryAtRest
    /\ AppAtRest
    /\ \E vehicleFeed \in VehicleFeeds : \E alertFeed \in AlertFeeds :
           /\ vehicleFeed = <<>> \/ alertFeed = <<>>
           /\ cache = [f \in Feeds |->
                       IF f = "vehicles" THEN vehicleFeed
                       ELSE IF f = "alerts" THEN alertFeed
                       ELSE <<>>]
    /\ lastFetch = [f \in Feeds |-> 0]
    /\ isFetching = [f \in Feeds |-> FALSE]
    /\ inFlight = [f \in Feeds |-> 0]
    /\ clock = 0
    /\ lastGood = [f \in Feeds |-> <<[entity |-> cache[f], at |-> 0]>>]
    /\ slotAtStart = [f \in Feeds |-> <<>>]
    /\ firstPoll = [f \in Feeds |-> FALSE]
    /\ tickSkipped = FALSE
    /\ streakFeed = "vehicles"
    /\ failStreak = 0
    /\ healed = FALSE

QueryNext ==
    \/ \E latRaw \in LatStrings : \E lonRaw \in LonStrings :
          \E radiusRaw \in RadiusStrings : GetNearby(latRaw, lonRaw, radiusRaw)
    \/ \E routeFilter \in RouteFilters : GetAlerts(routeFilter)

SpecQuery == QueryInit /\ [][QueryNext]_vars

(***************************************************************************)
(* Claims about the relay's query handlers.                                *)
(***************************************************************************)

\* The last request was a /api/nearby with a radius of R >= 0 metres and a
\* query point, and was answered.
NearbyAnswered ==
    /\ query.endpoint = "nearby"
    /\ reply.status = 200
    /\ parseFloat(query.radius).t = "num"

\* the vehicles of the cache with a position within R of the query point
InRange ==
    {i \in 1..Len(cache["vehicles"]) :
        /\ cache["vehicles"][i].position # Null
        /\ 10 * parseFloat(query.radius).n >=
               haversineTenths(parseFloat(query.lat).n, cache["vehicles"][i].position)}

ReturnedIds == {reply.nearby[k].id : k \in 1..Len(reply.nearby)}

\* C19 (as stated): a /api/nearby answer to a supplied radius R >= 0 lists only
\* vehicles with a position at most R from the query point, each once, in
\* ascending order of the reported distance, and they are the
\* min(limit, number in range) nearest of the vehicles in range.
C19_NearbyWithinRadius ==
    NearbyAnswered =>
        /\ ReturnedIds \subseteq InRange
        /\ Cardinality(ReturnedIds) = Len(reply.nearby)
        /\ \A k \in 1..(Len(reply.nearby) - 1) :
               reply.nearby[k].distanceMeters <= reply.nearby[k + 1].distanceMeters
        /\ Len(reply.nearby) = Min(NearbyLimit, Cardinality(InRange))
        /\ \A i \in InRange \ ReturnedIds : \A k \in 1..Len(reply.nearby) :
               reply.nearby[k].distanceMeters * 10 <=
                   haversineTenths(parseFloat(query.lat).n,
                                   cache["vehicles"][i].position) + 5

\* the maximal comma-free pieces of the filter string
FilterIdSet(str) ==
    {SubSeq(str, p[1], p[2]) :
        p \in {q \in (1..(Len(str) + 1)) \X (0..Len(str)) :
                  /\ q[1] <= q[2] + 1
                  /\ \A c \in q[1]..q[2] : str[c] # ","
                  /\ (q[1] = 1 \/ str[q[1] - 1] = ",")
                  /\ (q[2] = Len(str) \/ str[q[2] + 1] = ",")}}

\* the route ids an alert entity names
AffectedSet(entity) ==
    {entity.informedEntity[k] : k \in 1..Len(entity.informedEntity)} \ {<<>>}

\* the cached alerts, and those a filter string selects
CachedAlertIds == {i \in 1..Len(cache["alerts"]) : cache["alerts"][i].alert}

SelectedAlertIds(str) ==
    {i \in CachedAlertIds :
        \/ AffectedSet(cache["alerts"][i]) = {}
        \/ AffectedSet(cache["alerts"][i]) \cap FilterIdSet(str) # {}}

\* the ids of a set of cached alerts, in cache order
RECURSIVE InCacheOrder(_, _)
InCacheOrder(ids, from) ==
    IF from > Len(cache["alerts"]) THEN <<>>
    ELSE (IF from \in ids THEN <<from>> ELSE <<>>) \o InCacheOrder(ids, from + 1)

RepliedAlertIds == [k \in 1..Len(reply.alerts) |-> reply.alerts[k].id]

\* C20: a /api/alerts answer to a non-empty filter is exactly the cached alerts
\* whose affected-route set is empty or meets the filter's ids, in cache order;
\* to an empty or absent filter it is every cached alert.
C20_AlertsForRoutes ==
    query.endpoint = "alerts" =>
        /\ reply.status = 200
        /\ RepliedAlertIds =
               InCacheOrder(IF query.routes.t = "absent" \/ query.routes.s = <<>>
                            THEN CachedAlertIds
                            ELSE SelectedAlertIds(query.routes.s), 1)

\* A filter of two ids has kept a system-wide alert and dropped the alert of
\* another route.
C20_Witness ==
    /\ query.endpoint = "alerts"
    /\ query.routes = Str(<<"1", ",", "2">>)
    /\ Len(cache["alerts"]) = 2
    /\ cache["alerts"][1].alert
    /\ AffectedSet(cache["alerts"][1]) = {}
    /\ AffectedSet(cache["alerts"][2]) = {<<"1", "2">>, <<"2">>}
    /\ RepliedAlertIds = <<1, 2>>

(***************************************************************************)
(* The client: service alerts of the trip session (fetchServiceAlerts,     *)
(* called by the pollAlerts effect of ActiveTransitScreen).                *)
(***************************************************************************)
\* The routeIds the effect collects from the itinerary's transit steps.
RouteIdLists ==
    UNION {[1..n -> {<<"1">>, <<"2">>, <<"1", "2">>}] : n \in 0..2}

\* `alert.affectedRouteIds.some(id => routeIds.includes(id))`
AffectsSomeRoute(alert, routeIds) ==
    \E k \in 1..Len(alert.affectedRouteIds) :
        \E f \in 1..Len(routeIds) : routeIds[f] = alert.affectedRouteIds[k]

\* fetchServiceAlerts(routeIds) once axios.get(RELAY_ALERTS_URL) has settled:
\* the request carries no `routes` parameter; a rejection gives [].
ServiceAlertsFor(routeIds, settled, response) ==
    LET Affects(alert) == AffectsSomeRoute(alert, routeIds)
    IN  IF settled # "ok" THEN <<>>
        ELSE IF Len(routeIds) = 0 THEN response.alerts
        ELSE SelectSeq(response.alerts, Affects)

\* pollAlerts: `setServiceAlerts(await fetchServiceAlerts(routeIds))`; the
\* relay answers the request unless it fails on the way.
PollAlerts(routeIds, settled) ==
    /\ alertPoll' = [routeIds |-> routeIds, outcome |-> settled]
    /\ serviceAlerts' =
           ServiceAlertsFor(routeIds, settled, AlertsReply(cache["alerts"], Absent))
    /\ IF settled = "ok"
       THEN /\ query' = AlertsQuery(Absent)
            /\ reply' = AlertsReply(cache["alerts"], Absent)
       ELSE UNCHANGED <<query, reply>>
    /\ UNCHANGED <<pollerVars, pollerHist, clientVars, home, fanout, commute, predict>>

\* The relay holds an alerts feed; the trip session has polled nothing yet.
AlertsInit ==
    /\ QueryInit
    /\ cache["vehicles"] = <<>>

AlertsNext ==
    \E routeIds \in RouteIdLists : \E settled \in {"ok", "failed"} :
        PollAlerts(routeIds, settled)

SpecAlerts == AlertsInit /\ [][AlertsNext]_vars

\* C21 (as stated): after a fetchServiceAlerts(routeIds) with a non-empty
\* routeIds that the relay answered, the session's alerts include every cached
\* alert whose affected-route set is empty and every one whose affected routes
\* meet routeIds.
C21_SystemWideDelivered ==
    (alertPoll.outcome = "ok" /\ alertPoll.routeIds # <<>>) =>
        \A i \in CachedAlertIds :
            (\/ AffectedSet(cache["alerts"][i]) = {}
             \/ \E f \in 1..Len(alertPoll.routeIds) :
                    alertPoll.routeIds[f] \in AffectedSet(cache["alerts"][i]))
                => \E k \in 1..Len(serviceAlerts) : serviceAlerts[k].id = i

(***************************************************************************)
(* The client: the prediction requests of one fetchNearbyVehicles call.    *)
(***************************************************************************)
\* The routeId of each vehicle of a /api/nearby answer of k vehicles on m
\* routes (the answer holds at most NearbyLimit vehicles).
NearbyRouteIds(k, m) == [i \in 1..k |-> ((i - 1) % m) + 1]

\* fetchNearbyVehicles from the /api/nearby answer to `await Promise.all`:
\* uniqueRouteIds.map(async ...) runs every callback up to its await, so each
\* route's axios.get has been issued when the map returns.
StartPredictions(k, m) ==
    LET nearby == NearbyRouteIds(k, m)
        uniqueRouteIds == {nearby[i] : i \in 1..k}
    IN  /\ fanout.pc = "idle"
        /\ k > 0
        /\ fanout' = [fanout EXCEPT !.pc = "awaiting",
                                    !.uniqueRouteIds = uniqueRouteIds,
                                    !.inFlight = uniqueRouteIds,
                                    !.predictionsByRoute = {}]
        /\ UNCHANGED <<pollerVars, pollerHist, queryVars, clientVars, alertVars, home, commute,
                   predict>>

\* A fetchPredictions call settles (answer, error or timeout):
\* `predictionsByRoute.set(routeId, preds)`.
PredictionSettles(routeId) ==
    /\ routeId \in fanout.inFlight
    /\ fanout' = [fanout EXCEPT !.inFlight = @ \ {routeId},
                                !.predictionsByRoute = @ \cup {routeId}]
    /\ UNCHANGED <<pollerVars, pollerHist, queryVars, clientVars, alertVars, home, commute,
                   predict>>

\* `await Promise.all(predictionPromises)` resumes; the call returns.
PredictionsJoined ==
    /\ fanout.pc = "awaiting"
    /\ fanout.inFlight = {}
    /\ fanout' = [fanout EXCEPT !.pc = "returned"]
    /\ UNCHANGED <<pollerVars, pollerHist, queryVars, clientVars, alertVars, home, commute,
                   predict>>

FanoutInit ==
    /\ PollerAtRest
    /\ ClientAtRest
    /\ QueryAtRest
    /\ AppAtRest

FanoutNext ==
    \/ \E k \in 1..NearbyLimit : \E m \in 1..k : StartPredictions(k, m)
    \/ \E routeId \in 1..NearbyLimit : PredictionSettles(routeId)
    \/ PredictionsJoined

SpecFanout == FanoutInit /\ [][FanoutNext]_vars

\* C22 (as stated): during a fetchNearbyVehicles call at most 4 prediction
\* requests are in flight.
C22_BoundedFanout == Cardinality(fanout.inFlight) <= 4

(***************************************************************************)
(* The client: one fetchNearbyVehicles call from the /api/nearby answer to *)
(* the list it returns (closest vehicle per route, ETA, sort, slice).      *)
(***************************************************************************)
\* the /api/nearby answer holds 0..MaxNearby vehicles
MaxNearby == 5
\* `.slice(0, 4)`
ResultLimit == 4

\* routeId of the answer: the relay sends 'Unknown' for a vehicle without trip
NearbyRoutes == {"1", "2", "3", "4", "Unknown"}
NearbyDistances == {100, 450}

\* The answers of the relay: sorted by distance, ids in answer order.
NearbyAnswers ==
    {answer \in UNION {[1..n -> [routeId : NearbyRoutes,
                                  distanceMeters : NearbyDistances]] :
                           n \in 0..MaxNearby} :
        \A i \in 1..(Len(answer) - 1) :
            answer[i].distanceMeters <= answer[i + 1].distanceMeters}

\* the test of the byRoute loop, alternative: every later vehicle replaces
CloserOrLater(v, existing) == TRUE

\* `v.distanceMeters < existing.distanceMeters`
Closer(v, existing) == v.distanceMeters < existing.distanceMeters

\* The byRoute loop from nearby[i] on; byRoute holds the Map's values in
\* insertion order (a set on an existing key keeps the key's place).
RECURSIVE ByRoute(_, _, _)
ByRoute(nearby, i, byRoute) ==
    IF i > Len(nearby) THEN byRoute
    ELSE LET v == [id |-> i, routeId |-> nearby[i].routeId,
                   distanceMeters |-> nearby[i].distanceMeters]
             at == {e \in 1..Len(byRoute) : byRoute[e].routeId = v.routeId}
         IN  IF at = {} THEN ByRoute(nearby, i + 1, Append(byRoute, v))
             ELSE LET e == CHOOSE x \in at : TRUE
                  IN  IF Closer(v, byRoute[e])
                      THEN ByRoute(nearby, i + 1, [byRoute EXCEPT ![e] = v])
                      ELSE ByRoute(nearby, i + 1, byRoute)

\* fetchNearbyVehicles from the answer `nearby` on; the routes of `realtime`
\* have a prediction that gives their vehicle an ETA of 0 minutes, the other
\* vehicles get the distance estimate.
fetchNearbyVehicles(nearby, realtime) ==
    /\ fanout.pc = "answered"
    /\ \E closestPerRoute \in {ByRoute(nearby, 1, <<>>)} :
       \E mapped \in {[k \in 1..Len(closestPerRoute) |->
                          [id |-> closestPerRoute[k].id,
                           routeId |-> closestPerRoute[k].routeId,
                           distanceMeters |-> closestPerRoute[k].distanceMeters,
                           estimatedArrivalMins |->
                               IF closestPerRoute[k].routeId \in realtime THEN 0
                               ELSE DistanceEstimate(closestPerRoute[k]).n]]} :
       \E sorted \in {SortByKey(mapped,
                          [k \in 1..Len(mapped) |-> mapped[k].estimatedArrivalMins])} :
          fanout' = [fanout EXCEPT
                        !.pc = "returned",
                        !.closestPerRoute = closestPerRoute,
                        !.result = SubSeq(sorted, 1, Min(Len(sorted), ResultLimit))]
    /\ UNCHANGED <<pollerVars, pollerHist, queryVars, clientVars, alertVars, home, commute,
                   predict>>

\* The relay has answered the /api/nearby request of the call.
NearbyInit ==
    /\ PollerAtRest
    /\ ClientAtRest
    /\ QueryAtRest
    /\ AlertsAtRest
    /\ home = NoHome
    /\ commute = NoCommute
    /\ predict = NoPredict
    /\ \E answer \in NearbyAnswers :
           fanout = [NoFanout EXCEPT !.pc = "answered", !.nearby = answer]

NearbyNext ==
    \E realtime \in {{}, {"2"}, NearbyRoutes} :
        fetchNearbyVehicles(fanout.nearby, realtime)

SpecNearby == NearbyInit /\ [][NearbyNext]_vars

\* the vehicles of the answer on a route
VehiclesOfRoute(routeId) ==
    {i \in 1..Len(fanout.nearby) : fanout.nearby[i].routeId = routeId}

\* C33: of every route of the answer exactly one vehicle is kept, a vehicle
\* of that route at the least distance of the route's vehicles; nothing else
\* is kept; and no routeId occurs twice in the returned list.
C33_OnePerRoute ==
    fanout.pc = "returned" =>
        /\ \A i \in 1..Len(fanout.nearby) :
               \E k \in 1..Len(fanout.closestPerRoute) :
                   /\ fanout.closestPerRoute[k].routeId = fanout.nearby[i].routeId
                   /\ fanout.closestPerRoute[k].distanceMeters
                          <= fanout.nearby[i].distanceMeters
        /\ \A k \in 1..Len(fanout.closestPerRoute) :
               /\ fanout.closestPerRoute[k].id
                      \in VehiclesOfRoute(fanout.closestPerRoute[k].routeId)
               /\ fanout.closestPerRoute[k].distanceMeters =
                      fanout.nearby[fanout.closestPerRoute[k].id].distanceMeters
               /\ \A j \in 1..Len(fanout.closestPerRoute) :
                      fanout.closestPerRoute[j].routeId = fanout.closestPerRoute[k].routeId
                          => j = k
        /\ \A j, k \in 1..Len(fanout.result) :
               fanout.result[j].routeId = fanout.result[k].routeId => j = k

\* Five vehicles on four routes, two of them on one route at different
\* distances: four are kept and returned.
C33_Witness ==
    /\ fanout.pc = "returned"
    /\ Len(fanout.nearby) = 5
    /\ \E i, j \in 1..5 :
           /\ fanout.nearby[i].routeId = fanout.nearby[j].routeId
           /\ fanout.nearby[i].distanceMeters < fanout.nearby[j].distanceMeters
    /\ Len(fanout.closestPerRoute) = 4
    /\ Len(fanout.result) = 4

(***************************************************************************)
(* The client: commute pattern detector (utils/commutePatterns.ts).        *)
(*                                                                         *)
(* An instant is <<day, minute of the day>>; day 0 is a Sunday.  A         *)
(* timestamp counts minutes.  Calls run one after another.                 *)
(***************************************************************************)
\* recordCommuteDeparture is called at most MaxCalls times
MaxCalls == 3
MIN_OCCURRENCES == 3
TIME_WINDOW_MINUTES == 45
\* `60 * 24 * 60 * 60 * 1000`: the days and the minutes of a day in it
WindowDays == 60
MinutesPerDay == 1440
MinutesPerHour == 60
DaysPerWeek == 7

\* What the user types or selects as destination.
Destinations == {<<"U">>, <<" ", "u">>, <<"h">>}
\* When the calls are made.
CallDays == {0, 7, 14, 60, 77}
CallMinutes == {485, 492, 500, 545, 570}

Timestamp(day, minute) == day * MinutesPerDay + minute

RECURSIVE TrimStart(_)
TrimStart(str) ==
    IF str # <<>> /\ Head(str) = " " THEN TrimStart(Tail(str)) ELSE str

RECURSIVE TrimEnd(_)
TrimEnd(str) ==
    IF str # <<>> /\ str[Len(str)] = " "
    THEN TrimEnd(SubSeq(str, 1, Len(str) - 1))
    ELSE str

\* String.prototype.trim
Trim(str) == TrimEnd(TrimStart(str))

\* String.prototype.toLowerCase over the letters of Destinations
ToLowerCase(str) ==
    [i \in 1..Len(str) |->
        IF str[i] = "U" THEN "u" ELSE IF str[i] = "H" THEN "h" ELSE str[i]]

\* the key of byDest, alternative: the destination as it was recorded
DestAsTyped(d) == d.destination

\* `d.destination.trim().toLowerCase()`
DestKey(d) == ToLowerCase(Trim(d.destination))

\* `d.hour * 60 + d.minute`
TimeOfDay(d) == d.hour * MinutesPerHour + d.minute

\* The record recordCommuteDeparture pushes at <<day, minute>>.
Departure(destination, day, minute) ==
    [destination |-> Trim(destination),
     dayOfWeek |-> day % DaysPerWeek,
     hour |-> minute \div MinutesPerHour,
     minute |-> minute % MinutesPerHour,
     timestamp |-> Timestamp(day, minute)]

\* getObject, alternative: the error of JSON.parse is not caught
getObjectUncaught(stored) ==
    IF stored.kind = "value" THEN [t |-> "value", items |-> stored.items]
    ELSE IF stored.kind = "corrupt" THEN [t |-> "thrown", items |-> <<>>]
    ELSE [t |-> "undefined", items |-> <<>>]

\* getObject(key): the parsed value; undefined when nothing is stored, and
\* when JSON.parse throws, which the catch logs
getObject(stored) ==
    IF stored.kind = "value" THEN [t |-> "value", items |-> stored.items]
    ELSE [t |-> "undefined", items |-> <<>>]

\* `(await getObject(KEY)) || []`
StoredOrEmpty(stored) ==
    IF getObject(stored).t = "value" THEN getObject(stored).items ELSE <<>>

\* A caller of getObject has no try: what getObject throws ends the call.
Threw(stored) == getObject(stored).t = "thrown"

\* the filter of line 53, alternative: nothing is pruned
AlwaysInWindow(d, nowStamp) == TRUE

\* `d.timestamp > sixtyDaysAgo`
InWindow(d, nowStamp) == d.timestamp > nowStamp - WindowDays * MinutesPerDay

RECURSIVE ClusterFrom(_, _, _)
\* the loop of clusterByTime from index i on, clusters being those built so far
ClusterFrom(sorted, i, clusters) ==
    IF i > Len(sorted) THEN clusters
    ELSE LET lastCluster == clusters[Len(clusters)]
             lastTime == TimeOfDay(lastCluster[Len(lastCluster)])
         IN  IF TimeOfDay(sorted[i]) - lastTime <= TIME_WINDOW_MINUTES
             THEN ClusterFrom(sorted, i + 1,
                     [clusters EXCEPT ![Len(clusters)] = Append(lastCluster, sorted[i])])
             ELSE ClusterFrom(sorted, i + 1, Append(clusters, <<sorted[i]>>))

clusterByTime(departures) ==
    IF Len(departures) = 0 THEN <<>>
    ELSE LET sorted ==
                 SortByKey(departures,
                           [i \in 1..Len(departures) |-> TimeOfDay(departures[i])])
         IN  ClusterFrom(sorted, 2, <<<<sorted[1]>>>>)

RECURSIVE SumOfTimes(_)
SumOfTimes(cluster) ==
    IF cluster = <<>> THEN 0 ELSE TimeOfDay(Head(cluster)) + SumOfTimes(Tail(cluster))

\* The pattern pushed for a cluster: avgMin = sum / length,
\* Math.floor(avgMin / 60), Math.round(avgMin % 60), Math.max of the timestamps.
PatternOf(cluster, day) ==
    LET n == Len(cluster)
        sum == SumOfTimes(cluster)
    IN  [destination |-> cluster[1].destination,
         dayOfWeek |-> day,
         avgHour |-> sum \div (MinutesPerHour * n),
         avgMinute |-> RoundDiv(sum % (MinutesPerHour * n), n),
         occurrences |-> n,
         lastUsed |-> CHOOSE t \in {cluster[i].timestamp : i \in 1..n} :
                         \A i \in 1..n : cluster[i].timestamp <= t]

\* the test of line 90, alternative: every cluster becomes a pattern
AnyCluster(cluster) == TRUE

\* `cluster.length >= MIN_OCCURRENCES`
IsPattern(cluster) == Len(cluster) >= MIN_OCCURRENCES

RECURSIVE PatternsOfClusters(_, _)
PatternsOfClusters(clusters, day) ==
    IF clusters = <<>> THEN <<>>
    ELSE (IF IsPattern(Head(clusters)) THEN <<PatternOf(Head(clusters), day)>> ELSE <<>>)
         \o PatternsOfClusters(Tail(clusters), day)

RECURSIVE PatternsOfDays(_, _)
\* the loop over byDay: the days of `trips` in the order they first appear,
\* from index i on, skipping the days already met
PatternsOfDays(trips, i) ==
    IF i > Len(trips) THEN <<>>
    ELSE LET day == trips[i].dayOfWeek
             OnDay(t) == t.dayOfWeek = day
         IN  (IF \E j \in 1..(i - 1) : trips[j].dayOfWeek = day
              THEN <<>>
              ELSE PatternsOfClusters(clusterByTime(SelectSeq(trips, OnDay)), day))
             \o PatternsOfDays(trips, i + 1)

RECURSIVE PatternsOfDests(_, _)
\* the loop over byDest: the keys of `departures` in the order they first appear
PatternsOfDests(departures, i) ==
    IF i > Len(departures) THEN <<>>
    ELSE LET key == DestKey(departures[i])
             ToKey(d) == DestKey(d) = key
         IN  (IF \E j \in 1..(i - 1) : DestKey(departures[j]) = key
              THEN <<>>
              ELSE PatternsOfDays(SelectSeq(departures, ToKey), 1))
             \o PatternsOfDests(departures, i + 1)

\* the `patterns` computePatterns saves under PATTERNS_KEY
computePatterns(departures) == PatternsOfDests(departures, 1)

\* saveToStorage(key, value), alternative: the value is merged into the old one
MergedIntoStored(stored, items) == StoredList(StoredOrEmpty(stored) \o items)

\* saveToStorage(key, value): AsyncStorage.setItem replaces the value
SavedOver(stored, items) == StoredList(items)

\* The instants are ordered; the clock does not run backwards.
NotBefore(day, minute, instant) ==
    day > instant[1] \/ (day = instant[1] /\ minute >= instant[2])

\* recordCommuteDeparture(destination) at <<day, minute>>
recordCommuteDeparture(destination, day, minute) ==
    LET departures == StoredOrEmpty(commute.departures)
        added == Departure(destination, day, minute)
        InWindowNow(d) == InWindow(d, Timestamp(day, minute))
        trimmed == SelectSeq(Append(departures, added), InWindowNow)
    IN  /\ commute.calls < MaxCalls
        /\ NotBefore(day, minute, commute.clock)
        /\ commute' =
               IF Threw(commute.departures)
               THEN [commute EXCEPT !.clock = <<day, minute>>, !.calls = @ + 1,
                                    !.op = "threw", !.read = commute.departures.kind]
               ELSE
               [departures |-> SavedOver(commute.departures, trimmed),
                patterns |-> SavedOver(commute.patterns, computePatterns(trimmed)),
                clock |-> <<day, minute>>,
                calls |-> commute.calls + 1,
                op |-> "record",
                read |-> commute.departures.kind,
                before |-> departures,
                added |-> <<added>>,
                result |-> <<>>,
                running |-> commute.running,
                issued |-> commute.issued,
                inOrder |-> commute.inOrder]
        /\ UNCHANGED <<pollerVars, pollerHist, queryVars, clientVars, alertVars, home, fanout,
                   predict>>

\* Two departures of earlier Mondays, as two calls have left them.
TwoMondays ==
    <<Departure(<<"U">>, 0, 485), Departure(<<" ", "u">>, 7, 492)>>

\* The detector before a call: nothing stored yet, unreadable values under
\* both keys, or the log of two earlier calls.
CommuteInit ==
    /\ PollerAtRest
    /\ ClientAtRest
    /\ QueryAtRest
    /\ AlertsAtRest
    /\ home = NoHome
    /\ fanout = NoFanout
    /\ predict = NoPredict
    /\ \E seed \in {"new", "corrupt", "used"} :
          commute =
              [NoCommute EXCEPT
                  !.departures = IF seed = "new" THEN NothingStored
                                 ELSE IF seed = "corrupt" THEN CorruptValue
                                 ELSE StoredList(TwoMondays),
                  !.patterns = IF seed = "new" THEN NothingStored
                               ELSE IF seed = "corrupt" THEN CorruptValue
                               ELSE StoredList(computePatterns(TwoMondays)),
                  !.clock = IF seed = "used" THEN <<7, 492>> ELSE <<0, 485>>]

CommuteNext ==
    \E destination \in Destinations : \E day \in CallDays : \E minute \in CallMinutes :
        recordCommuteDeparture(destination, day, minute)

SpecCommute == CommuteInit /\ [][CommuteNext]_vars

(***************************************************************************)
(* Claims about the commute pattern detector.                              *)
(***************************************************************************)
StoredDepartures == commute.departures.items
StoredPatterns == commute.patterns.items

\* the records of the stored log in the group of record i: same destination
\* up to case and surrounding blanks, same weekday
GroupOf(i) ==
    {j \in 1..Len(StoredDepartures) :
        /\ ToLowerCase(Trim(StoredDepartures[j].destination)) =
               ToLowerCase(Trim(StoredDepartures[i].destination))
        /\ StoredDepartures[j].dayOfWeek = StoredDepartures[i].dayOfWeek}

MinuteOfDay(i) == StoredDepartures[i].hour * 60 + StoredDepartures[i].minute

\* a gap of more than 45 minutes between two consecutive times of the group
\* lies between records i and j
Separated(i, j) ==
    \E a \in GroupOf(i) : \E b \in GroupOf(i) :
        /\ MinuteOfDay(b) - MinuteOfDay(a) > 45
        /\ \A c \in GroupOf(i) :
               ~(MinuteOfDay(a) < MinuteOfDay(c) /\ MinuteOfDay(c) < MinuteOfDay(b))
        /\ Min(MinuteOfDay(i), MinuteOfDay(j)) <= MinuteOfDay(a)
        /\ MinuteOfDay(b) <= Max(MinuteOfDay(i), MinuteOfDay(j))

ClusterOf(i) == {j \in GroupOf(i) : ~Separated(i, j)}

Clusters == {ClusterOf(i) : i \in 1..Len(StoredDepartures)}

PatternMinute(p) == p.avgHour * 60 + p.avgMinute

\* pattern p is of the group of cluster c and its time lies within c's times
DerivedFrom(p, c) ==
    \E i \in c :
        /\ ToLowerCase(Trim(p.destination)) =
               ToLowerCase(Trim(StoredDepartures[i].destination))
        /\ p.dayOfWeek = StoredDepartures[i].dayOfWeek
        /\ \E j \in c : MinuteOfDay(j) <= PatternMinute(p)
        /\ \E j \in c : PatternMinute(p) <= MinuteOfDay(j)

RECURSIVE SumOfMinutes(_)
SumOfMinutes(c) ==
    IF c = {} THEN 0
    ELSE LET i == CHOOSE i \in c : TRUE
         IN  MinuteOfDay(i) + SumOfMinutes(c \ {i})

\* C23: every stored pattern has at least 3 occurrences, as many as the
\* cluster of the stored log it was derived from has records.
C23_OccurrencesAtThreshold ==
    \A k \in 1..Len(StoredPatterns) :
        /\ StoredPatterns[k].occurrences >= 3
        /\ \E c \in Clusters :
               /\ DerivedFrom(StoredPatterns[k], c)
               /\ StoredPatterns[k].occurrences = Cardinality(c)

\* A pattern of four occurrences is stored.
C23_Witness ==
    /\ commute.op = "record"
    /\ Len(StoredPatterns) = 1
    /\ StoredPatterns[1].occurrences = 4

\* C24: after a call, the stored patterns are one for each cluster of at least
\* 3 records (records of a group being in one cluster exactly when no gap of
\* more than 45 minutes between consecutive times separates them) and none for
\* the others; a pattern has the cluster's size and its mean time of day.
C24_Clustering ==
    commute.op = "record" =>
        /\ Len(StoredPatterns) = Cardinality({c \in Clusters : Cardinality(c) >= 3})
        /\ \A c \in Clusters :
               Cardinality(c) >= 3 =>
                   Cardinality(
                       {k \in 1..Len(StoredPatterns) :
                           /\ DerivedFrom(StoredPatterns[k], c)
                           /\ StoredPatterns[k].occurrences = Cardinality(c)
                           /\ 2 * Cardinality(c) * PatternMinute(StoredPatterns[k])
                                  > 2 * SumOfMinutes(c) - Cardinality(c)
                           /\ 2 * Cardinality(c) * PatternMinute(StoredPatterns[k])
                                  <= 2 * SumOfMinutes(c) + Cardinality(c)}) = 1

\* 8:05, 8:12 and 8:20 on three days of one weekday give one pattern of 3
\* occurrences at 8:12, under either spelling of the destination; a 9:30
\* departure of the same group is not counted in it.
C24_Witness ==
    /\ commute.op = "record"
    /\ Len(StoredDepartures) = 4
    /\ GroupOf(1) = 1..4
    /\ {StoredDepartures[i].timestamp \div 1440 : i \in 1..4} = {0, 7, 14}
    /\ {MinuteOfDay(i) : i \in 1..4} = {485, 492, 500, 570}
    /\ Len(StoredPatterns) = 1
    /\ StoredPatterns[1].occurrences = 3
    /\ StoredPatterns[1].avgHour = 8
    /\ StoredPatterns[1].avgMinute = 12

C26_RollingWindow ==
    commute.op = "record" =>
        LET nowStamp == commute.clock[1] * 1440 + commute.clock[2]
        IN  /\ \E i \in 1..Len(StoredDepartures) : StoredDepartures[i] = commute.added[1]
            /\ \A j \in 1..Len(commute.before) :
                   nowStamp - commute.before[j].timestamp < 60 * 1440 =>
                       \E i \in 1..Len(StoredDepartures) :
                           StoredDepartures[i] = commute.before[j]
            /\ \A i \in 1..Len(StoredDepartures) :
                   nowStamp - StoredDepartures[i].timestamp <= 60 * 1440

\* A call on day 60 has dropped the record of day 0 and kept those of days 7
\* and 14.
C26_Witness ==
    /\ commute.op = "record"
    /\ commute.clock = <<60, 492>>
    /\ Len(commute.before) = 3
    /\ commute.before[1].timestamp \div 1440 = 0
    /\ Len(StoredDepartures) = 3
    /\ StoredDepartures[1].timestamp \div 1440 = 7
    /\ StoredDepartures[2].timestamp \div 1440 = 14

(***************************************************************************)
(* The detector called on Sundays around the turn of an hour and of the    *)
(* day.                                                                    *)
(***************************************************************************)
Sundays == {0, 7, 14}
\* 8:50, 8:59, 9:00, 23:59 and midnight
HourTurnMinutes == {0, 530, 539, 540, 1439}

HourTurnNext ==
    \E destination \in {<<"U">>, <<"h">>} : \E day \in Sundays :
        \E minute \in HourTurnMinutes :
            recordCommuteDeparture(destination, day, minute)

SpecHourTurn == CommuteInit /\ [][HourTurnNext]_vars

\* C38: every pattern of the stored pattern cache is a clock time: its avgHour
\* is between 0 and 23 and its avgMinute between 0 and 59.
C38_PatternIsClockTime ==
    \A i \in 1..Len(StoredPatterns) :
        /\ StoredPatterns[i].avgHour \in 0..23
        /\ StoredPatterns[i].avgMinute \in 0..59

(***************************************************************************)
(* recordCommuteDeparture step by step: the call takes `now`, awaits the   *)
(* read of the log, awaits the save of the trimmed log, and awaits the     *)
(* save of the patterns (commutePatterns.ts:39-59, 105).  The handlers of  *)
(* the home screen start a call at every tap; nothing holds a tap back     *)
(* while a call is running.  commute.running holds the calls in progress,  *)
(* commute.issued the calls in the order their pending storage operation   *)
(* was issued; AsyncStorage promises no order of completion.               *)
(***************************************************************************)
OverlapMinutes == {492, 500}
OverlapDays == {14, 21}

commuteOthers ==
    <<pollerVars, pollerHist, queryVars, clientVars, alertVars, home, fanout, predict>>

\* The issued calls without call id.
IssuedWithout(ids, id) == SelectSeq(ids, LAMBDA x : x # id)

\* The storage operation of call c completes: c leaves commute.issued, and
\* the completion is in order when c was the first issued.
Completed(c) ==
    [issued |-> IssuedWithout(commute.issued, c.id),
     inOrder |-> commute.inOrder /\ Head(commute.issued) = c.id]

\* lines 40-41: `now` is taken and the read of the log is issued
StartRecord(destination, day, minute) ==
    /\ commute.calls < MaxCalls
    /\ NotBefore(day, minute, commute.clock)
    /\ commute' =
           [commute EXCEPT
               !.clock = <<day, minute>>,
               !.calls = @ + 1,
               !.running = @ \cup {[id |-> commute.calls + 1, pc |-> "read",
                                    destination |-> destination,
                                    now |-> <<day, minute>>,
                                    trimmed |-> <<>>]},
               !.issued = Append(@, commute.calls + 1)]
    /\ UNCHANGED commuteOthers

\* lines 41-55: the read resolves; the record is pushed with Date.now() as
\* timestamp, the log is trimmed and its save is issued
ReadResolves(c) ==
    LET departures == StoredOrEmpty(commute.departures)
        nowStamp == Timestamp(commute.clock[1], commute.clock[2])
        added == [Departure(c.destination, c.now[1], c.now[2])
                     EXCEPT !.timestamp = nowStamp]
        InWindowNow(d) == InWindow(d, nowStamp)
        trimmed == SelectSeq(Append(departures, added), InWindowNow)
    IN  /\ c \in commute.running
        /\ c.pc = "read"
        /\ commute' =
               [commute EXCEPT
                   !.running = (@ \ {c}) \cup
                                  {[c EXCEPT !.pc = "saveLog", !.trimmed = trimmed]},
                   !.issued = Append(Completed(c).issued, c.id),
                   !.inOrder = Completed(c).inOrder,
                   !.read = commute.departures.kind]
        /\ UNCHANGED commuteOthers

\* lines 55-58, 105: the save of the log resolves; the patterns are computed
\* from `trimmed` and their save is issued
LogSaved(c) ==
    /\ c \in commute.running
    /\ c.pc = "saveLog"
    /\ commute' =
           [commute EXCEPT
               !.departures = SavedOver(@, c.trimmed),
               !.running = (@ \ {c}) \cup {[c EXCEPT !.pc = "savePatterns"]},
               !.issued = Append(Completed(c).issued, c.id),
               !.inOrder = Completed(c).inOrder]
    /\ UNCHANGED commuteOthers

\* line 105: the save of the patterns resolves and the call returns
PatternsSaved(c) ==
    /\ c \in commute.running
    /\ c.pc = "savePatterns"
    /\ commute' =
           [commute EXCEPT
               !.patterns = SavedOver(@, computePatterns(c.trimmed)),
               !.running = @ \ {c},
               !.issued = Completed(c).issued,
               !.inOrder = Completed(c).inOrder,
               !.op = "record"]
    /\ UNCHANGED commuteOthers

OverlapNext ==
    \/ \E destination \in {<<"U">>, <<"h">>} : \E day \in OverlapDays :
           \E minute \in OverlapMinutes : StartRecord(destination, day, minute)
    \/ \E c \in commute.running : ReadResolves(c)
    \/ \E c \in commute.running : LogSaved(c)
    \/ \E c \in commute.running : PatternsSaved(c)

SpecOverlap == CommuteInit /\ [][OverlapNext]_vars

MaxPatterns == 2

\* A stored pattern: destination, weekday and mean time of day.
PatternChoices ==
    {[destination |-> dest, dayOfWeek |-> day, avgHour |-> t \div MinutesPerHour,
      avgMinute |-> t % MinutesPerHour, occurrences |-> MIN_OCCURRENCES,
      lastUsed |-> 0] :
        dest \in {<<"U">>, <<"h">>}, day \in {0, 1}, t \in {492, 500, 540}}

\* When the queries are made: days 7 and 8 are a Sunday and a Monday.
QueryDays == {7, 8}
QueryMinutes == {431, 432, 440, 461, 462, 481, 482, 530}

\* `p.avgHour * 60 + p.avgMinute`
patternMinutes(p) == p.avgHour * MinutesPerHour + p.avgMinute

\* the filter of getNextCommute, alternative: 10 minutes ahead counts
UpcomingFromTen(p, nowMinutes) ==
    patternMinutes(p) >= nowMinutes + 10 /\ patternMinutes(p) <= nowMinutes + 60

\* `patternMinutes > nowMinutes + 10 && patternMinutes <= nowMinutes + 60`
Upcoming(p, nowMinutes) ==
    patternMinutes(p) > nowMinutes + 10 /\ patternMinutes(p) <= nowMinutes + 60

\* The patterns of today that `Keep` keeps, sorted by time of day.
SortedByTime(patterns) ==
    SortByKey(patterns, [k \in 1..Len(patterns) |-> patternMinutes(patterns[k])])

\* getNextCommute() at <<day, minute>>: `upcoming[0] || null`
getNextCommute(day, minute) ==
    LET Keep(p) == p.dayOfWeek = day % DaysPerWeek /\ Upcoming(p, minute)
        upcoming == SortedByTime(SelectSeq(StoredOrEmpty(commute.patterns), Keep))
    IN  /\ commute' = [commute EXCEPT
                          !.op = IF Threw(commute.patterns) THEN "threw" ELSE "next",
                          !.clock = <<day, minute>>,
                          !.read = commute.patterns.kind,
                          !.result = IF upcoming = <<>> THEN <<>> ELSE <<upcoming[1]>>]
        /\ UNCHANGED <<pollerVars, pollerHist, queryVars, clientVars, alertVars, home, fanout,
                   predict>>

\* getTodaysPatterns() at <<day, minute>>
getTodaysPatterns(day, minute) ==
    LET Keep(p) ==
            /\ p.dayOfWeek = day % DaysPerWeek
            /\ patternMinutes(p) >= minute - 30
            /\ patternMinutes(p) <= minute + 120
    IN  /\ commute' = [commute EXCEPT
                          !.op = IF Threw(commute.patterns) THEN "threw" ELSE "today",
                          !.clock = <<day, minute>>,
                          !.read = commute.patterns.kind,
                          !.result =
                              SortedByTime(SelectSeq(StoredOrEmpty(commute.patterns), Keep))]
        /\ UNCHANGED <<pollerVars, pollerHist, queryVars, clientVars, alertVars, home, fanout,
                   predict>>

\* A pattern cache as recordCommuteDeparture calls have left it, or an
\* unreadable value under its key.
PatternsInit ==
    /\ PollerAtRest
    /\ ClientAtRest
    /\ QueryAtRest
    /\ AlertsAtRest
    /\ home = NoHome
    /\ fanout = NoFanout
    /\ predict = NoPredict
    /\ \E stored \in {NothingStored, CorruptValue}
                     \cup {StoredList(list) :
                             list \in UNION {[1..n -> PatternChoices] :
                                                n \in 0..MaxPatterns}} :
          commute = [NoCommute EXCEPT !.patterns = stored, !.clock = <<7, 0>>]

PatternsNext ==
    \/ \E day \in QueryDays : \E minute \in QueryMinutes : getNextCommute(day, minute)
    \/ \E day \in QueryDays : \E minute \in QueryMinutes : getTodaysPatterns(day, minute)

SpecPatterns == PatternsInit /\ [][PatternsNext]_vars

\* the stored patterns of today more than 10 and at most 60 minutes ahead
Qualifying ==
    {k \in 1..Len(StoredPatterns) :
        /\ StoredPatterns[k].dayOfWeek = commute.clock[1] % 7
        /\ PatternMinute(StoredPatterns[k]) - commute.clock[2] > 10
        /\ PatternMinute(StoredPatterns[k]) - commute.clock[2] <= 60}

MaxSchedules == 4

predictOthers ==
    <<pollerVars, pollerHist, queryVars, clientVars, alertVars, home, fanout, commute>>

\* the calls in flight after call i has returned
WithoutCall(i) == [k \in 1..(Len(predict.calls) - 1) |->
                      IF k < i THEN predict.calls[k] ELSE predict.calls[k + 1]]

\* loadSettings calls schedulePredictiveDeparture: it awaits the import.
StartSchedule ==
    /\ predict.started < MaxSchedules
    /\ predict' = [predict EXCEPT
                      !.started = @ + 1,
                      !.calls = Append(@, [pc |-> "import", target |-> Null])]
    /\ UNCHANGED predictOthers

\* After the import: `if (predictiveNotificationId)` the previous alert is
\* cancelled; otherwise the trigger time is computed, and the call returns if
\* it has passed or goes on to scheduleNotificationAsync.
ScheduleImported(i, passed) ==
    /\ predict.calls[i].pc = "import"
    /\ predict' =
           IF predict.predictiveNotificationId # Null
           THEN [predict EXCEPT
                    !.calls[i] = [pc |-> "cancel",
                                  target |-> predict.predictiveNotificationId]]
           ELSE IF passed
           THEN [predict EXCEPT !.calls = WithoutCall(i)]
           ELSE [predict EXCEPT !.calls[i].pc = "schedule"]
    /\ UNCHANGED predictOthers

\* cancelScheduledNotificationAsync has settled (a failure is ignored); the
\* trigger time is computed.
ScheduleCancelled(i, passed) ==
    /\ predict.calls[i].pc = "cancel"
    /\ predict' =
           IF passed
           THEN [predict EXCEPT !.pending = @ \ {predict.calls[i].target},
                                !.calls = WithoutCall(i)]
           ELSE [predict EXCEPT !.pending = @ \ {predict.calls[i].target},
                                !.calls[i].pc = "schedule"]
    /\ UNCHANGED predictOthers

\* `predictiveNotificationId = await scheduleNotificationAsync(...)`
ScheduleResolved(i) ==
    /\ predict.calls[i].pc = "schedule"
    /\ predict' = [predict EXCEPT
                      !.posted = @ + 1,
                      !.pending = @ \cup {predict.posted + 1},
                      !.predictiveNotificationId = predict.posted + 1,
                      !.calls = WithoutCall(i)]
    /\ UNCHANGED predictOthers

\* A pending alert reaches its trigger date and is delivered.
AlertFires(id) ==
    /\ id \in predict.pending
    /\ predict' = [predict EXCEPT !.pending = @ \ {id}]
    /\ UNCHANGED predictOthers

PredictInit ==
    /\ PollerAtRest
    /\ ClientAtRest
    /\ QueryAtRest
    /\ AppAtRest

PredictNext ==
    \/ StartSchedule
    \/ \E i \in 1..Len(predict.calls) : \E passed \in BOOLEAN : ScheduleImported(i, passed)
    \/ \E i \in 1..Len(predict.calls) : \E passed \in BOOLEAN : ScheduleCancelled(i, passed)
    \/ \E i \in 1..Len(predict.calls) : ScheduleResolved(i)
    \/ \E id \in 1..MaxSchedules : AlertFires(id)

SpecPredict == PredictInit /\ [][PredictNext]_vars

\* C28 (as stated): at most one predictive alert is pending at any time, and
\* the stored handle identifies it.
C28_OnePredictiveAlert ==
    /\ Cardinality(predict.pending) <= 1
    /\ predict.pending # {} => predict.pending = {predict.predictiveNotificationId}


(***************************************************************************)
(* The client's local state read back: the departure log, the pattern      *)
(* cache and the stored itinerary, each of which may hold a value that     *)
(* JSON.parse rejects.                                                     *)
(***************************************************************************)
\* A pattern of Sundays at 08:12, as computePatterns stores one.
SundayPattern ==
    [destination |-> <<"u">>, dayOfWeek |-> 0, avgHour |-> 8, avgMinute |-> 12,
     occurrences |-> MIN_OCCURRENCES, lastUsed |-> 0]

\* When the calls are made: day 7 is a Sunday.
LocalDays == {7}
LocalMinutes == {440, 485, 492}

\* The trip screen has mounted, and the detector has not been called yet;
\* under each key lies a value or something unreadable.
LocalStateInit ==
    /\ PollerAtRest
    /\ QueryAtRest
    /\ AlertsAtRest
    /\ home = NoHome
    /\ fanout = NoFanout
    /\ predict = NoPredict
    /\ SessionMounted
    /\ \E log \in {CorruptValue, StoredList(TwoMondays)} :
       \E cached \in {CorruptValue, StoredList(<<SundayPattern>>)} :
          commute = [NoCommute EXCEPT !.departures = log, !.patterns = cached,
                                      !.clock = <<7, 0>>]

LocalStateNext ==
    \/ \E destination \in Destinations : \E day \in LocalDays :
          \E minute \in LocalMinutes : recordCommuteDeparture(destination, day, minute)
    \/ \E day \in LocalDays : \E minute \in LocalMinutes :
          NotBefore(day, minute, commute.clock) /\ getNextCommute(day, minute)
    \/ \E day \in LocalDays : \E minute \in LocalMinutes :
          NotBefore(day, minute, commute.clock) /\ getTodaysPatterns(day, minute)
    \/ CachedLoadResolves
    \/ ExitSession

SpecLocalState == LocalStateInit /\ [][LocalStateNext]_vars

\* C29: a stored value that cannot be parsed is read as nothing stored, and
\* no call fails on it: recordCommuteDeparture then stores a log of the one
\* new record, getNextCommute returns null and getTodaysPatterns the empty
\* list, and the trip session shows no offline route.
C29_CorruptionAsAbsence ==
    /\ commute.op # "threw"
    /\ (commute.op = "record" /\ commute.read = "corrupt") =>
           /\ commute.before = <<>>
           /\ commute.departures = StoredList(commute.added)
    /\ (commute.op \in {"next", "today"} /\ commute.read = "corrupt") =>
           commute.result = <<>>
    /\ cachedRead.kind = "corrupt" =>
           /\ ~isOffline
           /\ steps = paramSteps

\* The trip screen opened without a live route over an unreadable
\* itinerary, and a departure was recorded over an unreadable log.
C29_Witness ==
    /\ paramSteps = <<>>
    /\ cachedRead.kind = "corrupt"
    /\ cachedLoad = "done"
    /\ ~isOffline
    /\ commute.op = "record"
    /\ commute.read = "corrupt"
    /\ Len(StoredDepartures) = 1

(***************************************************************************)
(* The relay server with its poller running and its five query handlers    *)
(* serving requests (backend/src/index.ts).                                *)
(***************************************************************************)
\* What a caller sends as route.
RouteStrings == {Absent, Str(<<>>), Str(<<"1">>), Str(<<"9">>)}

\* `!routeId`: no parameter, or the empty string
NoRoute(raw) == raw.t = "absent" \/ raw.s = <<>>

\* GET /api/health
GetHealth ==
    /\ query' = [endpoint |-> "health"]
    /\ reply' = [status |-> 200, health |-> health]
    /\ UNCHANGED <<pollerVars, pollerHist, clientVars, appVars>>

\* GET /api/vehicles: the cache, or its entities of the route.  An entity
\* without trip has the empty routeId, which no route that gets here equals.
VehiclesReply(vehicleCache, routeRaw) ==
    LET OnRoute(v) == v.routeId = routeRaw.s
    IN  [status |-> 200,
         vehicles |-> IF NoRoute(routeRaw) THEN vehicleCache
                      ELSE SelectSeq(vehicleCache, OnRoute)]

GetVehicles(routeRaw) ==
    /\ query' = [endpoint |-> "vehicles", route |-> routeRaw]
    /\ reply' = VehiclesReply(cache["vehicles"], routeRaw)
    /\ UNCHANGED <<pollerVars, pollerHist, clientVars, appVars>>

\* GET /api/predictions: 400 without route; else the loop over
\* tripUpdatesCache (`!tu?.trip?.routeId || tu.trip.routeId !== routeId`).
PredictionsReply(tripUpdatesCache, routeRaw) ==
    LET Kept(entity) ==
            /\ entity.tripUpdate
            /\ entity.routeId # <<>>
            /\ entity.routeId = routeRaw.s
        pushed == PredictionsEndpoint(SelectSeq(tripUpdatesCache, Kept))
    IN  IF NoRoute(routeRaw)
        THEN [status |-> 400, predictions |-> <<>>, count |-> 0]
        ELSE [status |-> 200, predictions |-> pushed, count |-> Len(pushed)]

GetPredictions(routeRaw) ==
    /\ query' = [endpoint |-> "predictions", route |-> routeRaw]
    /\ reply' = PredictionsReply(cache["tripUpdates"], routeRaw)
    /\ UNCHANGED <<pollerVars, pollerHist, clientVars, appVars>>

\* The three feeds as a poll has decoded them.
RelayVehicles ==
    <<[id |-> 1, position |-> 1000, routeId |-> <<"1">>],
      [id |-> 2, position |-> Null, routeId |-> <<>>],
      [id |-> 3, position |-> 1004, routeId |-> <<"9">>]>>

RelayAlerts ==
    <<[alert |-> TRUE, informedEntity |-> <<<<"1">>>>],
      [alert |-> TRUE, informedEntity |-> <<>>],
      [alert |-> FALSE, informedEntity |-> <<>>]>>

RelayTripUpdates ==
    <<[tripUpdate |-> TRUE, routeId |-> <<"1">>, tripId |-> "T1",
       stopTimeUpdate |-> <<[stopSequence |-> 1,
                             arrival |-> [present |-> TRUE, low |-> NowSec + 30]]>>],
      [tripUpdate |-> FALSE, routeId |-> <<>>, tripId |-> NoTripId,
       stopTimeUpdate |-> <<>>]>>

\* The requests served while the poller runs.
RelayLatStrings == {Absent, Str(<<"1", "0", "0", "0">>)}
RelayRadiusStrings == {Absent, Str(<<"1">>)}
RelayRouteFilters == {Absent, Str(<<"1">>), Str(<<"2", ",", "9">>)}

\* The relay between two polls, each feed fetched once at time 0; no request
\* served yet.
RelayInit ==
    /\ ClientAtRest
    /\ QueryAtRest
    /\ AppAtRest
    /\ cache = [f \in Feeds |->
                  IF f = "vehicles" THEN RelayVehicles
                  ELSE IF f = "alerts" THEN RelayAlerts
                  ELSE RelayTripUpdates]
    /\ lastFetch = [f \in Feeds |-> 0]
    /\ isFetching = [f \in Feeds |-> FALSE]
    /\ inFlight = [f \in Feeds |-> 0]
    /\ clock = 0
    /\ lastGood = [f \in Feeds |-> <<[entity |-> cache[f], at |-> 0]>>]
    /\ slotAtStart = [f \in Feeds |-> <<>>]
    /\ firstPoll = [f \in Feeds |-> FALSE]
    /\ tickSkipped = FALSE
    /\ streakFeed = "vehicles"
    /\ failStreak = 0
    /\ healed = FALSE

\* The upstream messages of these polls hold no entity.
RelayNext ==
    \/ updateVehicleCache
    \/ updateAlertsCache
    \/ updateTripUpdatesCache
    \/ \E f \in Feeds : FetchSucceeds(f) /\ cache'[f] = <<>>
    \/ \E f \in Feeds : FetchFails(f)
    \/ ClockAdvance
    \/ GetHealth
    \/ \E routeRaw \in RouteStrings : GetVehicles(routeRaw)
    \/ \E latRaw \in RelayLatStrings : \E lonRaw \in LonStrings :
          \E radiusRaw \in RelayRadiusStrings : GetNearby(latRaw, lonRaw, radiusRaw)
    \/ \E routeFilter \in RelayRouteFilters : GetAlerts(routeFilter)
    \/ \E routeRaw \in RouteStrings : GetPredictions(routeRaw)

SpecRelay == RelayInit /\ [][RelayNext]_vars

\* C30: a step that serves a request leaves the three caches, the three
\* lastFetch times and the three single-flight flags as they were, and a
\* step that changes a cache is the completion of a fetch of that feed whose
\* message decoded, the cache then holding that message.
C30_HandlersReadOnly ==
    [][/\ (query' # query \/ reply' # reply) =>
              UNCHANGED <<cache, lastFetch, isFetching>>
       /\ \A f \in Feeds :
              cache'[f] # cache[f] =>
                  /\ inFlight[f] > 0
                  /\ inFlight'[f] = inFlight[f] - 1
                  /\ lastGood'[f] = <<[entity |-> cache'[f], at |-> clock]>>]_vars

\* A prediction request for a route has been answered from the cache of time
\* 0 after a poll has replaced the vehicle cache and while a poll of the
\* alerts feed is in flight.
C30_Witness ==
    /\ query = [endpoint |-> "predictions", route |-> Str(<<"1">>)]
    /\ reply.status = 200
    /\ reply.count = 1
    /\ cache["tripUpdates"] = RelayTripUpdates
    /\ cache["vehicles"] = <<>>
    /\ lastFetch["vehicles"] = 1
    /\ isFetching["alerts"]

(***************************************************************************)
(* The client: the home screen's nearby-refresh timer (part_006).  Two     *)
(* effects share the ref nearbyInterval: the first (deps navigation,       *)
(* refreshNearby) subscribes to focus, starts the loads and sets a timer;  *)
(* the second (deps userCoords, refreshNearby) clears the ref's timer and  *)
(* sets a new one.  The effects of a commit run one after another, the     *)
(* cleanups first; no timer fires in between.                              *)
(***************************************************************************)
\* setInterval is called at most MaxTimers times
MaxTimers == 6
\* the home screen is mounted at most MaxMounts times
MaxMounts == 2
\* at most MaxLoads loadNearby calls await the location at a time
MaxLoads == 2

\* `if (nearbyInterval.current) clearInterval(nearbyInterval.current)`: the
\* ref keeps the id of the cleared timer.
ClearCurrent(h) == [h EXCEPT !.active = @ \ {h.ref}]

\* `nearbyInterval.current = setInterval(...)`
SetInterval(h) ==
    [h EXCEPT !.ref = h.created + 1, !.active = @ \cup {h.created + 1},
              !.created = @ + 1]

\* The first effect: loadSettings(); loadNearby(); then the timer is set.
FocusEffect(h) == SetInterval([h EXCEPT !.loads = Min(MaxLoads, @ + 1)])

\* Its cleanup: unsubscribe(); the ref's timer is cleared.
FocusEffectCleanup(h) == ClearCurrent(h)

\* The second effect, alternative: the timer is set without the clear before
CoordsEffectKeepsTimer(h) == SetInterval(h)

\* The second effect: the ref's timer is cleared, then the timer is set.
CoordsEffect(h) == SetInterval(ClearCurrent(h))

\* Its cleanup.
CoordsEffectCleanup(h) == ClearCurrent(h)

homeOthers == <<pollerVars, pollerHist, queryVars, clientVars, alertVars, fanout,
                commute, predict>>

\* The home screen mounts (a new instance: its ref is null, its state empty)
\* and both effects run.
MountHome ==
    /\ home.phase \in {"off", "unmounted"}
    /\ home.mounts < MaxMounts
    /\ home.created + 2 <= MaxTimers
    /\ home' = CoordsEffect(FocusEffect(
                   [home EXCEPT !.phase = "mounted", !.ref = Null, !.loads = 0,
                                !.hasCoords = FALSE, !.mounts = @ + 1]))
    /\ UNCHANGED homeOthers

\* A focus event: the listener calls loadSettings() and loadNearby().
FocusEvent ==
    /\ home.phase = "mounted"
    /\ home.loads < MaxLoads
    /\ home' = [home EXCEPT !.loads = @ + 1]
    /\ UNCHANGED homeOthers

\* A loadNearby call has its location: setUserCoords({lat, lon}) with a new
\* object, so the mounted screen renders again and the second effect is
\* cleaned up and run.  On a screen torn down the setter does nothing.
LocationResolves ==
    /\ home.loads > 0
    /\ home.phase = "mounted" => home.created < MaxTimers
    /\ home' = IF home.phase = "mounted"
               THEN CoordsEffect(CoordsEffectCleanup(
                        [home EXCEPT !.loads = @ - 1, !.hasCoords = TRUE]))
               ELSE [home EXCEPT !.loads = @ - 1]
    /\ UNCHANGED homeOthers

\* A loadNearby call ends without location (permission denied, or an error).
LocationFails ==
    /\ home.loads > 0
    /\ home' = [home EXCEPT !.loads = @ - 1]
    /\ UNCHANGED homeOthers

\* The navigation prop changes: the first effect is cleaned up and run.
NavigationChanges ==
    /\ home.phase = "mounted"
    /\ home.created < MaxTimers
    /\ home' = FocusEffect(FocusEffectCleanup(home))
    /\ UNCHANGED homeOthers

\* The timer t fires its callback.
RefreshTick(t) ==
    /\ t \in home.active
    /\ home' = [home EXCEPT !.ticked = TRUE,
                            !.lateTick = @ \/ home.phase = "unmounted"]
    /\ UNCHANGED homeOthers

\* The home screen is torn down: both cleanups run.
UnmountHome ==
    /\ home.phase = "mounted"
    /\ home' = CoordsEffectCleanup(FocusEffectCleanup(
                   [home EXCEPT !.phase = "unmounted"]))
    /\ UNCHANGED homeOthers

HomeInit ==
    /\ PollerAtRest
    /\ ClientAtRest
    /\ QueryAtRest
    /\ AppAtRest

HomeNext ==
    \/ MountHome
    \/ FocusEvent
    \/ LocationResolves
    \/ LocationFails
    \/ NavigationChanges
    \/ \E t \in 1..MaxTimers : RefreshTick(t)
    \/ UnmountHome

SpecHome == HomeInit /\ [][HomeNext]_vars

\* C34: at most one timer set by the home screen is active, none is once
\* the screen is torn down, and no refresh tick fires after the teardown.
C34_OneRefreshTimer ==
    /\ Cardinality(home.active) <= 1
    /\ home.phase = "unmounted" => home.active = {}
    /\ ~home.lateTick

\* The screen mounted a second time has its coordinates, a fifth timer is
\* the active one and a tick has fired.
C34_Witness ==
    /\ home.phase = "mounted"
    /\ home.mounts = 2
    /\ home.hasCoords
    /\ home.created >= 5
    /\ home.active = {home.created}
    /\ home.ticked

====
